---- MODULE Spec2Model ----
(***************************************************************************)
(* Chat-driven leave-request components of the leave-management frontend:  *)
(* ChatDashboard (pages/employee/DashboardPage.tsx), UnifiedChatBox        *)
(* (components/common, in Toast.tsx), LeaveChatInterface with chatSlice    *)
(* and HRChatInterface with hrSlice; and, outside the chat, the router     *)
(* (AppRoutes, ProtectedRoute), ApprovalsPage, the pending-approvals panel *)
(* of DashboardPage and TeamViewPage.                                      *)
(*                                                                         *)
(* One chat component is mounted per session.  The browser runs one event  *)
(* handler at a time and React commits the state updates of a handler      *)
(* before the next event is dispatched, so every handler (and every        *)
(* continuation after an await) is one atomic action.  The network is the  *)
(* two sequences of calls in flight; the backend answers them in any       *)
(* order, with success or failure.                                         *)
(*                                                                         *)
(* Text is a sequence of chunks: the chunk " " is white space, every other *)
(* chunk is a run of text without white space at its ends.  Optional       *)
(* values (a JavaScript field that may be undefined, or the empty string   *)
(* of a date field) are sequences of length 0 or 1.                        *)
(***************************************************************************)
EXTENDS Integers, Sequences, FiniteSets, TLC

VARIABLES
    component,            \* the chat component mounted in this session
    role,                 \* state.auth.user.role
    utcShift,             \* days from the local calendar day to the UTC calendar day
    effectsRun,           \* the mount effects (useEffect(..., [])) have run
    messages,             \* the transcript
    input,                \* the text field
    loading,              \* a conversational call is in flight
    isSubmitting,         \* ChatDashboard: a create-leave call is in flight
    activeComponentIndex, \* ChatDashboard: the active widget pointer
    pickers,              \* ChatDashboard: local state of the DatePickerCard of each entry
    suggestions,          \* UnifiedChatBox: the suggestion chips
    pendingLeave,         \* UnifiedChatBox: the pending leave draft
    submitting,           \* UnifiedChatBox: a create-leave call is in flight
    currentLeaveData,     \* chatSlice: the draft of LeaveChatInterface
    suggestedPersons,     \* chatSlice
    isComplete,           \* chatSlice
    needsClarification,   \* chatSlice
    error,                \* chatSlice / hrSlice: the last rejection
    currentData,          \* hrSlice
    suggestedActions,     \* hrSlice
    convCalls,            \* POST /conversation calls in flight
    leaveCalls,           \* POST /employees/leaves calls in flight
    created,              \* the leave requests the backend has created
    token,                \* state.auth.token is set
    user,                 \* state.auth.user is set
    path,                 \* the location the router renders
    pendingLeaves,        \* ApprovalsPage: the displayed pending list
    selectedLeave,        \* ApprovalsPage: the leave under review
    comments,             \* ApprovalsPage: the comment field
    pendingApprovals,     \* DashboardPage: the pending-approvals panel's list
    loadingApprovals,     \* DashboardPage: the panel's list is being loaded
    processingLeaveId,    \* DashboardPage: the leave whose decision is being processed
    activeTab,            \* TeamViewPage: the tab shown
    overview,             \* TeamViewPage: the overview is loaded
    calendar,             \* TeamViewPage: the range of the calendar on screen, if any
    insights,             \* TeamViewPage: the period of the insights on screen, if any
    forecast,             \* TeamViewPage: the range of the forecast on screen, if any
    calendarDays,         \* TeamViewPage: the calendar range selected
    insightsPeriod,       \* TeamViewPage: the insights period selected
    forecastDays,         \* TeamViewPage: the forecast range selected
    timers,               \* TeamViewPage: the setTimeout callbacks not yet run
    approvalCalls,        \* approve/reject calls in flight
    fetchCalls,           \* getPendingLeaves calls in flight
    teamCalls,            \* team overview / calendar / insights / forecast calls in flight
    decided               \* the leaves the backend has approved or rejected

\* the state of each component other than the transcript, the text field and loading
cdVars == <<isSubmitting, activeComponentIndex, pickers>>
ucbVars == <<suggestions, pendingLeave, submitting>>
chatVars == <<currentLeaveData, suggestedPersons, isComplete, needsClarification>>
hrVars == <<currentData, suggestedActions>>

\* the router and the pages outside the chat
routeVars == <<token, user, path>>
apVars == <<pendingLeaves, selectedLeave, comments>>
dpVars == <<pendingApprovals, loadingApprovals, processingLeaveId>>
tvVars == <<activeTab, overview, calendar, insights, forecast, calendarDays, insightsPeriod,
            forecastDays, timers, teamCalls>>
pageVars == <<routeVars, apVars, dpVars, tvVars, approvalCalls, fetchCalls, decided>>

\* the state only the chat components use
chatOnlyVars == <<utcShift, messages, input, cdVars, ucbVars, chatVars, hrVars, error,
                  convCalls, leaveCalls, created>>

vars == <<component, role, utcShift, effectsRun, messages, input, loading,
          isSubmitting, activeComponentIndex, pickers, suggestions, pendingLeave,
          submitting, currentLeaveData, suggestedPersons, isComplete,
          needsClarification, error, currentData, suggestedActions,
          convCalls, leaveCalls, created, pageVars>>

----------------------------------------------------------------------------
(* Bounds *)

MaxMessages == 6
MaxSubmits == 2

----------------------------------------------------------------------------
(* JavaScript values *)

Null == -2
Undefined == -1

None == <<>>
Some(x) == <<x>>
IsSome(o) == Len(o) > 0
Get(o) == o[1]

Space == " "

RECURSIVE TrimStart(_)
TrimStart(t) ==
    IF t = <<>> THEN <<>>
    ELSE IF Head(t) = Space THEN TrimStart(Tail(t)) ELSE t

RECURSIVE TrimEnd(_)
TrimEnd(t) ==
    IF t = <<>> THEN <<>>
    ELSE IF t[Len(t)] = Space THEN TrimEnd(SubSeq(t, 1, Len(t) - 1)) ELSE t

Trim(t) == TrimEnd(TrimStart(t))

\* mutant: the text is tested without trim()
IsBlank_NoTrim(t) == t = <<>>

\* !text.trim()
IsBlank(t) == Trim(t) = <<>>

RemoveAt(s, i) == SubSeq(s, 1, i - 1) \o SubSeq(s, i + 1, Len(s))

----------------------------------------------------------------------------
(* Server payloads.  The backend is outside the repository: a response is   *)
(* any element of Responses, a failure any element of Failures.             *)

Compliant == [compliant |-> TRUE]

Person1 == [id |-> 1, name |-> "Asha"]

\* data.leave_data of a complete request
LeaveData1 ==
    [leave_type |-> "SICK", start_date |-> Some(10), end_date |-> Some(12),
     reason |-> <<"flu">>, responsible_person_id |-> None, ui_state |-> None,
     policy_compliance |-> None]

\* {}: a draft with no field set
EmptyLeaveData ==
    [leave_type |-> "", start_date |-> None, end_date |-> None, reason |-> <<>>,
     responsible_person_id |-> None, ui_state |-> None, policy_compliance |-> None]

\* the same request, carrying the widget tag inside leave_data
LeaveData1Tagged == [LeaveData1 EXCEPT !.ui_state = Some("CONFIRMATION_CARD")]

NoData ==
    [leave_data |-> None, leave_type |-> "", start_date |-> None, end_date |-> None,
     reason |-> <<>>, policy_compliance |-> None, is_complete |-> FALSE,
     suggested_responsible_persons |-> <<>>]

Reply(ui, data, intent) ==
    [response |-> <<"reply">>, ui_state |-> ui, data |-> data, intent |-> intent,
     actions |-> <<>>]

RespPlain == Reply(None, None, "GENERAL")
RespTypeSelector == Reply(Some("TYPE_SELECTOR"), None, "REQUEST_LEAVE")
RespDatePicker ==
    Reply(Some("DATE_PICKER"), Some([NoData EXCEPT !.leave_type = "SICK"]), "REQUEST_LEAVE")
RespConfirmation ==
    Reply(Some("CONFIRMATION_CARD"),
          Some([NoData EXCEPT !.leave_data = Some(LeaveData1), !.is_complete = TRUE]),
          "REQUEST_LEAVE")
RespNestedTag ==
    Reply(None, Some([NoData EXCEPT !.leave_data = Some(LeaveData1Tagged),
                                    !.is_complete = TRUE]), "REQUEST_LEAVE")
RespFlatConfirmation ==
    Reply(Some("CONFIRMATION_CARD"),
          Some([NoData EXCEPT !.leave_type = "ANNUAL", !.start_date = Some(3),
                              !.end_date = Some(3)]), "REQUEST_LEAVE")
RespUnknownTag == Reply(Some("CAROUSEL"), None, "GENERAL")
RespPolicy == Reply(None, Some([NoData EXCEPT !.policy_compliance = Some(Compliant)]), "POLICY")

\* a widget tag together with a policy_compliance object
RespTaggedPolicy ==
    Reply(Some("TYPE_SELECTOR"), Some([NoData EXCEPT !.policy_compliance = Some(Compliant)]),
          "REQUEST_LEAVE")

Responses ==
    {RespPlain, RespTypeSelector, RespDatePicker, RespConfirmation, RespNestedTag,
     RespFlatConfirmation, RespUnknownTag, RespPolicy, RespTaggedPolicy}

\* error.response?.data?.message / .detail of a failed call: absent or a server text
Failures == {None, Some("Insufficient balance")}

\* what the user can type
TypedTexts == {<<>>, <<Space>>, <<"hi">>}

----------------------------------------------------------------------------
(* Transcript entries.  timestamp (new Date()) is left out: it is never read *)
(* back by a handler.                                                       *)

Entry(r, c, ui, idx, d, it) ==
    [role |-> r, content |-> c, ui_state |-> ui, index |-> idx, data |-> d, intent |-> it]

UserMessage(text) == Entry("user", text, None, Undefined, None, "")

Components == {"ChatDashboard", "UnifiedChatBox", "LeaveChatInterface", "HRChatInterface"}

\* every in-flight call appends at most one more entry; n is what the new call appends
CanGrow(n) == Len(messages) + Len(convCalls) + Len(leaveCalls) + n <= MaxMessages

----------------------------------------------------------------------------
(* ChatDashboard (pages/employee/DashboardPage.tsx)                         *)

WelcomeMessage ==
    Entry("assistant", <<"Welcome back! How can I help you today?">>,
          Some("GREETING"), 0, None, "")

QuickActions == {<<"Apply", Space, "for", Space, "Leave">>,
                 <<"Check", Space, "Status">>,
                 <<"Cancel", Space, "Request">>}

LeaveTypes == {"ANNUAL", "SICK", "CASUAL", "MATERNITY", "UNPAID"}

\* String.prototype.toLowerCase on the leave-type catalogue
ToLowerCase(type) ==
    CASE type = "ANNUAL" -> "annual"
      [] type = "SICK" -> "sick"
      [] type = "CASUAL" -> "casual"
      [] type = "MATERNITY" -> "maternity"
      [] type = "UNPAID" -> "unpaid"

\* the days of the calendar grid the user clicks
Days == {5, 10}

\* days from the local calendar day to the UTC calendar day: it depends on the time
\* zone and on the time of day of the session
UtcShifts == {-1, 0, 1}

\* new Date(); setDate(day); toISOString().split('T')[0]: the UTC calendar day of
\* the local instant, as a day ordinal of the current month
ToISODate(day) == day + utcShift

\* the buttons the user clicks, out of QuickActions and LeaveTypes
ClickedQuickActions == {<<"Apply", Space, "for", Space, "Leave">>}
ClickedLeaveTypes == {"SICK", "UNPAID"}

DateText(d) == IF IsSome(d) THEN ToString(Get(d)) ELSE "undefined"

PickerInit == [startDate |-> None, endDate |-> None, selectedDates |-> <<>>]

\* one DatePickerCard instance per rendered entry (key = position); a new entry
\* mounts with the useState initial values
Rendered(msgs) ==
    [p \in 1..Len(msgs) |-> IF p \in DOMAIN pickers THEN pickers[p] ELSE PickerInit]

\* the component tag renderDynamicComponent dispatches on
Widget(msg) ==
    LET tag == msg.ui_state
        data == msg.data
        policy == IsSome(data) /\
                  (IsSome(Get(data).policy_compliance) \/
                   (IsSome(Get(data).leave_data) /\
                    IsSome(Get(Get(data).leave_data).policy_compliance)))
    IN  IF msg.role # "assistant" THEN "UserBubble"
        ELSE IF tag = Some("GREETING") THEN "GreetingCard"
        ELSE IF tag = Some("TYPE_SELECTOR") THEN "LeaveTypeSelector"
        ELSE IF tag = Some("DATE_PICKER") THEN "DatePickerCard"
        ELSE IF tag = Some("CONFIRMATION_CARD") THEN "ConfirmationCard"
        ELSE IF policy THEN "PolicyComplianceBadge"
        ELSE "null"

\* what the transcript loop renders for an entry: the user bubble, or the element
\* renderDynamicComponent returns (none if it returns null) and, when
\* !msg.ui_state?.component, the text bubble with msg.content
RenderEntry(msg) ==
    IF msg.role = "user" THEN {"UserBubble"}
    ELSE (IF Widget(msg) = "null" THEN {} ELSE {Widget(msg)})
         \cup (IF IsSome(msg.ui_state) THEN {} ELSE {"TextBubble"})

\* rendering the entry throws: ConfirmationCard reads leaveData.leave_type and leaveData
\* is data?.leave_data || data, undefined when the entry has no data
RenderThrows(msg) ==
    /\ msg.role = "assistant"
    /\ msg.ui_state = Some("CONFIRMATION_CARD")
    /\ ~IsSome(msg.data)

\* Math.ceil((new Date(end).getTime() - new Date(start).getTime()) / (1000 * 60 * 60 * 24)):
\* a date-only string parses to UTC midnight of its day
DaysBetween(start, end) ==
    LET msPerDay == 1000 * 60 * 60 * 24
        ms == end * msPerDay - start * msPerDay
    IN  -((-ms) \div msPerDay)

\* mutant: the difference of the two days, without the + 1
CalculateDuration_Exclusive(start, end) ==
    IF ~IsSome(start) \/ ~IsSome(end) THEN 0
    ELSE DaysBetween(Get(start), Get(end))

\* calculateDuration of DatePickerCard (on startDate, endDate) and of ConfirmationCard
\* (on leaveData.start_date, leaveData.end_date)
CalculateDuration(start, end) ==
    IF ~IsSome(start) \/ ~IsSome(end) THEN 0
    ELSE DaysBetween(Get(start), Get(end)) + 1

\* mutant: isDisabled taken from the entry alone, without the active pointer
IsDisabled_IgnoresPointer(msg) == msg.index = Undefined

\* const isDisabled = msg.index !== activeComponentIndex
IsDisabled(msg) == msg.index # activeComponentIndex

\* mutant: the buttons lose the isSubmitting guard
ConfirmDisabled_IgnoresSubmitting(msg) == IsDisabled(msg)

\* ConfirmationCard buttons: disabled={disabled || isSubmitting}
ConfirmDisabled(msg) == IsDisabled(msg) \/ isSubmitting

\* const leaveData = data?.leave_data || data, read through the four fields used
LeaveDataOf(msg) ==
    LET d == IF IsSome(msg.data) THEN Get(msg.data) ELSE NoData
        src == IF IsSome(d.leave_data) THEN Get(d.leave_data) ELSE d
    IN  [leave_type |-> src.leave_type, start_date |-> src.start_date,
         end_date |-> src.end_date, reason |-> src.reason]

\* mutant: the index of the last entry instead of the next one
NewIndex_LastPosition(call) == Len(call.chat_history) - 1

\* const newIndex = messages.length + 1, messages being the array the handler closed over
NewIndex(call) == Len(call.chat_history) + 1

\* mutant: the mount effect seeds no welcome entry
CD_Mount_NoWelcome ==
    /\ component = "ChatDashboard"
    /\ ~effectsRun
    /\ effectsRun' = TRUE
    /\ messages' = <<>>
    /\ activeComponentIndex' = 0
    /\ pickers' = Rendered(messages')
    /\ UNCHANGED <<ucbVars, chatVars, hrVars, error, pageVars, component, role, utcShift, input,
                   loading, isSubmitting, convCalls, leaveCalls, created>>

CD_Mount ==
    /\ component = "ChatDashboard"
    /\ ~effectsRun
    /\ effectsRun' = TRUE
    /\ messages' = <<WelcomeMessage>>
    /\ activeComponentIndex' = 0
    /\ pickers' = Rendered(messages')
    /\ UNCHANGED <<ucbVars, chatVars, hrVars, error, pageVars, component, role, utcShift, input, loading, isSubmitting,
                   convCalls, leaveCalls, created>>

\* handleSend up to the await
CD_handleSend(messageText) ==
    IF IsBlank(messageText) \/ loading
    THEN UNCHANGED vars
    ELSE /\ CanGrow(2)
         /\ messages' = Append(messages, UserMessage(messageText))
         /\ input' = <<>>
         /\ loading' = TRUE
         /\ convCalls' = Append(convCalls,
                [message |-> messageText, chat_history |-> messages])
         /\ pickers' = Rendered(messages')
         /\ UNCHANGED <<ucbVars, chatVars, hrVars, error, pageVars, component, role, utcShift, effectsRun, isSubmitting,
                        activeComponentIndex, leaveCalls, created>>

CD_Active == component = "ChatDashboard" /\ effectsRun

\* onChange of the text field (disabled={loading})
CD_SetInput(text) ==
    /\ CD_Active
    /\ ~loading
    /\ text # input
    /\ input' = text
    /\ UNCHANGED <<ucbVars, chatVars, hrVars, error, pageVars, component, role, utcShift, effectsRun, messages, loading, isSubmitting,
                   activeComponentIndex, pickers, convCalls, leaveCalls, created>>

\* Enter in the text field (disabled={loading})
CD_PressEnter ==
    /\ CD_Active
    /\ ~loading
    /\ CD_handleSend(input)

\* the send button (disabled={loading || !input.trim()})
CD_ClickSend ==
    /\ CD_Active
    /\ ~(loading \/ IsBlank(input))
    /\ CD_handleSend(input)

\* GreetingCard quick-action button: onClick={() => onQuickAction(label)}, disabled={disabled}
CD_ClickQuickAction(pos, action) ==
    /\ CD_Active
    /\ Widget(messages[pos]) = "GreetingCard"
    /\ IF IsDisabled(messages[pos])
       THEN UNCHANGED vars
       ELSE CD_handleSend(action)

\* LeaveTypeSelector button: handleLeaveTypeSelect(type)
CD_ClickLeaveType(pos, type) ==
    /\ CD_Active
    /\ Widget(messages[pos]) = "LeaveTypeSelector"
    /\ IF IsDisabled(messages[pos])
       THEN UNCHANGED vars
       ELSE CD_handleSend(<<"I", Space, "need", Space, ToLowerCase(type), Space, "leave">>)

\* mutant: the two days are kept in click order
Sort2_ClickOrder(a, b) == <<a, b>>

\* [a, b].sort((x, y) => x - y)
Sort2(a, b) == IF a <= b THEN <<a, b>> ELSE <<b, a>>

\* mutant: a click on the only selected day deselects it
DateClick_Toggle(picker, day) ==
    IF picker.selectedDates = <<day>>
    THEN [selectedDates |-> <<>>, startDate |-> None, endDate |-> None]
    ELSE LET dateStr == ToISODate(day)
             sel == picker.selectedDates
         IN  IF Len(sel) = 0
             THEN [picker EXCEPT !.selectedDates = <<day>>, !.startDate = Some(dateStr)]
             ELSE IF Len(sel) = 1
             THEN LET newDates == Sort2(sel[1], day)
                  IN  [selectedDates |-> newDates,
                       startDate |-> Some(ToISODate(newDates[1])),
                       endDate |-> Some(ToISODate(newDates[2]))]
             ELSE [selectedDates |-> <<day>>, startDate |-> Some(dateStr), endDate |-> None]

\* DatePickerCard.handleDateClick: the picker state after a click on day
DateClick(picker, day) ==
    LET dateStr == ToISODate(day)
        sel == picker.selectedDates
    IN  IF Len(sel) = 0
        THEN [picker EXCEPT !.selectedDates = <<day>>, !.startDate = Some(dateStr)]
        ELSE IF Len(sel) = 1
        THEN LET newDates == Sort2(sel[1], day)
             IN  [selectedDates |-> newDates,
                  startDate |-> Some(ToISODate(newDates[1])),
                  endDate |-> Some(ToISODate(newDates[2]))]
        ELSE [selectedDates |-> <<day>>, startDate |-> Some(dateStr), endDate |-> None]

\* a day button of the calendar grid (disabled={disabled}; the handler returns if disabled)
CD_ClickDay(pos, day) ==
    /\ CD_Active
    /\ Widget(messages[pos]) = "DatePickerCard"
    /\ IF IsDisabled(messages[pos])
       THEN UNCHANGED vars
       ELSE /\ pickers' = [pickers EXCEPT ![pos] = DateClick(pickers[pos], day)]
            /\ UNCHANGED <<ucbVars, chatVars, hrVars, error, pageVars, component, role, utcShift, effectsRun, messages, input, loading,
                           isSubmitting, activeComponentIndex, convCalls, leaveCalls,
                           created>>

\* Confirm Selection (disabled={!startDate || !endDate || disabled}): handleSubmit,
\* then handleDateSelect(startDate, endDate)
CD_ClickConfirmSelection(pos) ==
    /\ CD_Active
    /\ Widget(messages[pos]) = "DatePickerCard"
    /\ LET p == pickers[pos]
       IN  IF IsSome(p.startDate) /\ IsSome(p.endDate) /\ ~IsDisabled(messages[pos])
           THEN CD_handleSend(<<"From", Space, DateText(p.startDate), Space,
                                "to", Space, DateText(p.endDate)>>)
           ELSE UNCHANGED vars

\* the body handleConfirmLeave sends: reason: leaveData.reason || '...'
LeaveRequest(leaveData) ==
    [leave_type |-> leaveData.leave_type,
     start_date |-> leaveData.start_date,
     end_date |-> leaveData.end_date,
     reason |-> IF leaveData.reason # <<>> THEN leaveData.reason
                ELSE <<"Leave request via Aurora AI">>,
     responsible_person_id |-> None]

\* Submit Request: onConfirm={() => handleConfirmLeave(leaveData)}, up to the await
CD_ClickSubmit(pos) ==
    /\ CD_Active
    /\ Widget(messages[pos]) = "ConfirmationCard"
    /\ IF ConfirmDisabled(messages[pos])
       THEN UNCHANGED vars
       ELSE /\ CanGrow(1)
            /\ isSubmitting' = TRUE
            /\ leaveCalls' = Append(leaveCalls,
                   [payload |-> LeaveRequest(LeaveDataOf(messages[pos])),
                    leaveData |-> LeaveDataOf(messages[pos]),
                    card |-> pos])
            /\ UNCHANGED <<ucbVars, chatVars, hrVars, error, pageVars, component, role, utcShift, effectsRun, messages, input, loading,
                           activeComponentIndex, pickers, convCalls, created>>

\* mutant: Edit wired to onConfirm
CD_ClickEdit_Submits(pos) == CD_ClickSubmit(pos)

\* Edit: onEdit={() => handleSend('edit')}
CD_ClickEdit(pos) ==
    /\ CD_Active
    /\ Widget(messages[pos]) = "ConfirmationCard"
    /\ IF ConfirmDisabled(messages[pos])
       THEN UNCHANGED vars
       ELSE CD_handleSend(<<"edit">>)

\* let uiState = response.ui_state; if (!uiState && response.data?.leave_data?.ui_state) ...
UiStateOf(response) ==
    IF IsSome(response.ui_state) THEN response.ui_state
    ELSE IF IsSome(response.data) /\ IsSome(Get(response.data).leave_data)
         THEN Get(Get(response.data).leave_data).ui_state
         ELSE None

\* handleSend after the await, the call resolved
CD_ConversationOk(i, response) ==
    /\ CD_Active
    /\ LET call == convCalls[i]
           newIndex == NewIndex(call)
           assistantMessage ==
               Entry("assistant", response.response, UiStateOf(response), newIndex,
                     response.data, response.intent)
       IN  /\ messages' = Append(messages, assistantMessage)
           /\ activeComponentIndex' = newIndex
    /\ loading' = FALSE
    /\ convCalls' = RemoveAt(convCalls, i)
    /\ pickers' = Rendered(messages')
    /\ UNCHANGED <<ucbVars, chatVars, hrVars, error, pageVars, component, role, utcShift, effectsRun, input, isSubmitting,
                   leaveCalls, created>>

CD_SendErrorMessage ==
    Entry("assistant", <<"An error occurred. Please try again.">>, None, Undefined, None, "")

\* mutant: the catch branch also clears the active pointer
CD_ConversationFail_ClearsPointer(i) ==
    /\ CD_Active
    /\ messages' = Append(messages, CD_SendErrorMessage)
    /\ activeComponentIndex' = Null
    /\ loading' = FALSE
    /\ convCalls' = RemoveAt(convCalls, i)
    /\ pickers' = Rendered(messages')
    /\ UNCHANGED <<ucbVars, chatVars, hrVars, error, pageVars, component, role, utcShift, effectsRun,
                   input, isSubmitting, leaveCalls, created>>

\* mutant: the pointer is advanced in the catch branch as well
CD_ConversationFail_AdvancesPointer(i) ==
    /\ CD_Active
    /\ messages' = Append(messages, CD_SendErrorMessage)
    /\ activeComponentIndex' = NewIndex(convCalls[i])
    /\ loading' = FALSE
    /\ convCalls' = RemoveAt(convCalls, i)
    /\ pickers' = Rendered(messages')
    /\ UNCHANGED <<ucbVars, chatVars, hrVars, error, pageVars, component, role, utcShift, effectsRun,
                   input, isSubmitting, leaveCalls, created>>

\* handleSend after the await, the call rejected
CD_ConversationFail(i) ==
    /\ CD_Active
    /\ messages' = Append(messages, CD_SendErrorMessage)
    /\ loading' = FALSE
    /\ convCalls' = RemoveAt(convCalls, i)
    /\ pickers' = Rendered(messages')
    /\ UNCHANGED <<ucbVars, chatVars, hrVars, error, pageVars, component, role, utcShift, effectsRun, input, isSubmitting,
                   activeComponentIndex, leaveCalls, created>>

\* data: { leave_request: response } carries none of the fields the renderer reads
CD_SuccessMessage(leaveData) ==
    Entry("assistant",
          <<"Request submitted successfully.\n\nType: ", leaveData.leave_type,
            "\nDuration: ", DateText(leaveData.start_date), " to ",
            DateText(leaveData.end_date),
            "\nStatus: Pending Approval\n\nYou will be notified once reviewed.">>,
          None, Undefined, Some(NoData), "")

CD_SubmitErrorMessage(failure) ==
    Entry("assistant",
          <<"Failed to submit request. ",
            IF IsSome(failure) THEN Get(failure) ELSE "Please contact HR for assistance.">>,
          None, Undefined, None, "")

\* mutant: the success branch leaves the active pointer alone
CD_CreateLeaveOk_KeepsPointer(i) ==
    /\ CD_Active
    /\ messages' = Append(messages, CD_SuccessMessage(leaveCalls[i].leaveData))
    /\ isSubmitting' = FALSE
    /\ created' = Append(created, leaveCalls[i])
    /\ leaveCalls' = RemoveAt(leaveCalls, i)
    /\ pickers' = Rendered(messages')
    /\ UNCHANGED <<ucbVars, chatVars, hrVars, error, pageVars, component, role, utcShift, effectsRun,
                   input, loading, activeComponentIndex, convCalls>>

\* handleConfirmLeave after the await, the call resolved
CD_CreateLeaveOk(i) ==
    /\ CD_Active
    /\ messages' = Append(messages, CD_SuccessMessage(leaveCalls[i].leaveData))
    /\ activeComponentIndex' = Null
    /\ isSubmitting' = FALSE
    /\ created' = Append(created, leaveCalls[i])
    /\ leaveCalls' = RemoveAt(leaveCalls, i)
    /\ pickers' = Rendered(messages')
    /\ UNCHANGED <<ucbVars, chatVars, hrVars, error, pageVars, component, role, utcShift, effectsRun, input, loading, convCalls>>

\* mutant: isSubmitting is reset on success only, not in a finally
CD_CreateLeaveFail_StaysSubmitting(i, failure) ==
    /\ CD_Active
    /\ messages' = Append(messages, CD_SubmitErrorMessage(failure))
    /\ leaveCalls' = RemoveAt(leaveCalls, i)
    /\ pickers' = Rendered(messages')
    /\ UNCHANGED <<ucbVars, chatVars, hrVars, error, pageVars, component, role, utcShift, effectsRun,
                   input, loading, isSubmitting, activeComponentIndex, convCalls, created>>

\* handleConfirmLeave after the await, the call rejected
CD_CreateLeaveFail(i, failure) ==
    /\ CD_Active
    /\ messages' = Append(messages, CD_SubmitErrorMessage(failure))
    /\ isSubmitting' = FALSE
    /\ leaveCalls' = RemoveAt(leaveCalls, i)
    /\ pickers' = Rendered(messages')
    /\ UNCHANGED <<ucbVars, chatVars, hrVars, error, pageVars, component, role, utcShift, effectsRun, input, loading,
                   activeComponentIndex, convCalls, created>>

CD_Next ==
    \/ CD_Mount
    \/ \E text \in TypedTexts : CD_SetInput(text)
    \/ CD_PressEnter
    \/ CD_ClickSend
    \/ \E pos \in 1..Len(messages) :
          \/ \E action \in ClickedQuickActions : CD_ClickQuickAction(pos, action)
          \/ \E type \in ClickedLeaveTypes : CD_ClickLeaveType(pos, type)
          \/ \E day \in Days : CD_ClickDay(pos, day)
          \/ CD_ClickConfirmSelection(pos)
          \/ CD_ClickSubmit(pos)
          \/ CD_ClickEdit(pos)
    \/ \E i \in 1..Len(convCalls) :
          \/ \E response \in Responses : CD_ConversationOk(i, response)
          \/ CD_ConversationFail(i)
    \/ \E i \in 1..Len(leaveCalls) :
          \/ CD_CreateLeaveOk(i)
          \/ \E failure \in Failures : CD_CreateLeaveFail(i, failure)

----------------------------------------------------------------------------
(* UnifiedChatBox (components/common/UnifiedChatBox.tsx, in Toast.tsx)      *)

Roles == {"EMPLOYEE", "MANAGER", "HR"}

getRoleSuggestions(r) ==
    IF r = "HR"
    THEN << <<"Show", Space, "pending", Space, "approvals">>,
            <<"Department", Space, "analytics">>,
            <<"Who", Space, "is", Space, "on", Space, "leave", Space, "today?">> >>
    ELSE IF r = "MANAGER"
    THEN << <<"Team", Space, "status">>,
            <<"Pending", Space, "approvals">>,
            <<"Show", Space, "my", Space, "team", Space, "leaves">> >>
    ELSE << <<"Request", Space, "leave">>,
            <<"Check", Space, "my", Space, "balance">>,
            <<"Show", Space, "my", Space, "leaves">> >>

RespActions == [RespPlain EXCEPT !.actions = << <<"Check", Space, "my", Space, "leaves">> >>]
RespCompletePersons ==
    Reply(None,
          Some([NoData EXCEPT !.leave_data = Some(LeaveData1), !.is_complete = TRUE,
                              !.suggested_responsible_persons = <<Person1>>]),
          "REQUEST_LEAVE")
RespCompleteOther ==
    Reply(None,
          Some([NoData EXCEPT !.leave_data = Some([LeaveData1 EXCEPT !.leave_type = "ANNUAL"]),
                              !.is_complete = TRUE]),
          "REQUEST_LEAVE")

UCB_Responses == {RespActions, RespCompletePersons, RespCompleteOther}

\* the suggestion chips the user clicks, by position
UCB_ClickedSuggestions == {1}

UCB_Active == component = "UnifiedChatBox" /\ effectsRun

\* useEffect(() => setSuggestions(getRoleSuggestions(user?.role)), [user])
UCB_Mount ==
    /\ component = "UnifiedChatBox"
    /\ ~effectsRun
    /\ effectsRun' = TRUE
    /\ suggestions' = getRoleSuggestions(role)
    /\ UNCHANGED <<cdVars, chatVars, hrVars, error, pageVars, component, role, utcShift, messages,
                   input, loading, pendingLeave, submitting, convCalls, leaveCalls, created>>

\* handleSend up to the await
UCB_handleSend ==
    IF IsBlank(input) \/ loading
    THEN UNCHANGED vars
    ELSE /\ CanGrow(2)
         /\ messages' = Append(messages, UserMessage(input))
         /\ input' = <<>>
         /\ loading' = TRUE
         /\ convCalls' = Append(convCalls, [message |-> input, chat_history |-> messages])
         /\ UNCHANGED <<cdVars, ucbVars, chatVars, hrVars, error, pageVars, component, role, utcShift,
                        effectsRun, leaveCalls, created>>

\* onChange of the text field (disabled={loading})
UCB_SetInput(text) ==
    /\ UCB_Active
    /\ ~loading
    /\ text # input
    /\ input' = text
    /\ UNCHANGED <<cdVars, ucbVars, chatVars, hrVars, error, pageVars, component, role, utcShift,
                   effectsRun, messages, loading, convCalls, leaveCalls, created>>

\* handleSuggestionClick: the chips show when suggestions.length > 0 && !pendingLeave
UCB_ClickSuggestion(k) ==
    /\ UCB_Active
    /\ pendingLeave = None
    /\ input' = suggestions[k]
    /\ UNCHANGED <<cdVars, ucbVars, chatVars, hrVars, error, pageVars, component, role, utcShift,
                   effectsRun, messages, loading, convCalls, leaveCalls, created>>

\* Enter in the text field (disabled={loading})
UCB_PressEnter ==
    /\ UCB_Active
    /\ ~loading
    /\ UCB_handleSend

\* the send button (disabled={loading || !input.trim()})
UCB_ClickSend ==
    /\ UCB_Active
    /\ ~(loading \/ IsBlank(input))
    /\ UCB_handleSend

\* response.intent === 'REQUEST_LEAVE' && response.data?.is_complete
IsCompleteRequest(intent, data) ==
    intent = "REQUEST_LEAVE" /\ IsSome(data) /\ Get(data).is_complete

\* the draft setPendingLeave stores for a complete response
DraftOf(data) ==
    LET leaveData == Get(Get(data).leave_data)
    IN  [leave_type |-> leaveData.leave_type,
         start_date |-> leaveData.start_date,
         end_date |-> leaveData.end_date,
         reason |-> leaveData.reason,
         responsible_person_id |-> None,
         suggested_persons |-> Get(data).suggested_responsible_persons]

\* handleSend after the await, the call resolved
UCB_ConversationOk(i, response) ==
    /\ UCB_Active
    /\ messages' = Append(messages,
           Entry("assistant", response.response, None, Undefined, response.data,
                 response.intent))
    /\ suggestions' = response.actions
    /\ pendingLeave' = IF IsCompleteRequest(response.intent, response.data)
                       THEN Some(DraftOf(response.data))
                       ELSE pendingLeave
    /\ loading' = FALSE
    /\ convCalls' = RemoveAt(convCalls, i)
    /\ UNCHANGED <<cdVars, chatVars, hrVars, error, pageVars, component, role, utcShift, effectsRun,
                   input, submitting, leaveCalls, created>>

UCB_SendErrorMessage ==
    Entry("assistant", <<"Sorry, I encountered an error. Please try again.">>,
          None, Undefined, None, "")

\* mutant: the error entry takes the place of the user entry it answers
UCB_ConversationFail_ReplacesLast(i) ==
    /\ UCB_Active
    /\ messages' = [messages EXCEPT ![Len(messages)] = UCB_SendErrorMessage]
    /\ loading' = FALSE
    /\ convCalls' = RemoveAt(convCalls, i)
    /\ UNCHANGED <<cdVars, ucbVars, chatVars, hrVars, error, pageVars, component, role, utcShift,
                   effectsRun, input, leaveCalls, created>>

\* mutant: the catch branch also drops the pending draft
UCB_ConversationFail_ClearsDraft(i) ==
    /\ UCB_Active
    /\ messages' = Append(messages, UCB_SendErrorMessage)
    /\ pendingLeave' = None
    /\ loading' = FALSE
    /\ convCalls' = RemoveAt(convCalls, i)
    /\ UNCHANGED <<cdVars, chatVars, hrVars, error, pageVars, component, role, utcShift,
                   effectsRun, input, suggestions, submitting, leaveCalls, created>>

\* handleSend after the await, the call rejected
UCB_ConversationFail(i) ==
    /\ UCB_Active
    /\ messages' = Append(messages, UCB_SendErrorMessage)
    /\ loading' = FALSE
    /\ convCalls' = RemoveAt(convCalls, i)
    /\ UNCHANGED <<cdVars, ucbVars, chatVars, hrVars, error, pageVars, component, role, utcShift,
                   effectsRun, input, leaveCalls, created>>

\* the Submit Leave Request button is rendered under every complete REQUEST_LEAVE entry
UCB_HasSubmitButton(msg) == IsCompleteRequest(msg.intent, msg.data)

\* the body handleSubmitLeave sends
UCB_LeaveRequest(draft) ==
    [leave_type |-> draft.leave_type,
     start_date |-> draft.start_date,
     end_date |-> draft.end_date,
     reason |-> draft.reason,
     responsible_person_id |-> draft.responsible_person_id]

\* mutant: the button submits the draft of the entry it is rendered under
UCB_ClickSubmit_SendsClicked(pos) ==
    /\ UCB_Active
    /\ UCB_HasSubmitButton(messages[pos])
    /\ IF submitting \/ pendingLeave = None
       THEN UNCHANGED vars
       ELSE /\ CanGrow(1)
            /\ submitting' = TRUE
            /\ leaveCalls' = Append(leaveCalls,
                   [payload |-> UCB_LeaveRequest(DraftOf(messages[pos].data)),
                    leaveData |-> UCB_LeaveRequest(DraftOf(messages[pos].data)),
                    card |-> pos])
            /\ UNCHANGED <<cdVars, chatVars, hrVars, error, pageVars, component, role, utcShift,
                           effectsRun, messages, input, loading, suggestions, pendingLeave,
                           convCalls, created>>

\* Submit Leave Request (disabled={submitting}): handleSubmitLeave up to the await
UCB_ClickSubmit(pos) ==
    /\ UCB_Active
    /\ UCB_HasSubmitButton(messages[pos])
    /\ IF submitting \/ pendingLeave = None
       THEN UNCHANGED vars
       ELSE /\ CanGrow(1)
            /\ submitting' = TRUE
            /\ leaveCalls' = Append(leaveCalls,
                   [payload |-> UCB_LeaveRequest(Get(pendingLeave)),
                    leaveData |-> UCB_LeaveRequest(Get(pendingLeave)),
                    card |-> pos])
            /\ UNCHANGED <<cdVars, chatVars, hrVars, error, pageVars, component, role, utcShift,
                           effectsRun, messages, input, loading, suggestions, pendingLeave,
                           convCalls, created>>

UCB_SuccessMessage ==
    Entry("assistant",
          <<"Your leave request has been submitted successfully! Your manager will review it soon.">>,
          None, Undefined, None, "")

UCB_SubmitErrorMessage(failure) ==
    Entry("assistant",
          <<"Failed to submit: ", IF IsSome(failure) THEN Get(failure) ELSE "Unknown error">>,
          None, Undefined, None, "")

\* handleSubmitLeave after the await, the call resolved
UCB_CreateLeaveOk(i) ==
    /\ UCB_Active
    /\ messages' = Append(messages, UCB_SuccessMessage)
    /\ pendingLeave' = None
    /\ suggestions' = << <<"Check", Space, "my", Space, "leaves">>,
                         <<"Check", Space, "my", Space, "balance">> >>
    /\ submitting' = FALSE
    /\ created' = Append(created, leaveCalls[i])
    /\ leaveCalls' = RemoveAt(leaveCalls, i)
    /\ UNCHANGED <<cdVars, chatVars, hrVars, error, pageVars, component, role, utcShift, effectsRun,
                   input, loading, convCalls>>

\* handleSubmitLeave after the await, the call rejected
UCB_CreateLeaveFail(i, failure) ==
    /\ UCB_Active
    /\ messages' = Append(messages, UCB_SubmitErrorMessage(failure))
    /\ submitting' = FALSE
    /\ leaveCalls' = RemoveAt(leaveCalls, i)
    /\ UNCHANGED <<cdVars, chatVars, hrVars, error, pageVars, component, role, utcShift, effectsRun,
                   input, loading, suggestions, pendingLeave, convCalls, created>>

\* msg.data?.suggested_responsible_persons
PersonsOf(msg) ==
    IF IsSome(msg.data) THEN Get(msg.data).suggested_responsible_persons ELSE <<>>

\* the responsible-person panel of an entry is rendered
UCB_HasPersonPanel(msg) ==
    /\ IsCompleteRequest(msg.intent, msg.data)
    /\ Len(PersonsOf(msg)) > 0
    /\ IsSome(pendingLeave)
    /\ ~IsSome(Get(pendingLeave).responsible_person_id)

\* handleSelectResponsiblePerson
UCB_SelectResponsiblePerson(pos, person) ==
    /\ UCB_Active
    /\ UCB_HasPersonPanel(messages[pos])
    /\ CanGrow(1)
    /\ pendingLeave' = Some([Get(pendingLeave) EXCEPT !.responsible_person_id = Some(person.id)])
    /\ messages' = Append(messages,
           Entry("assistant",
                 <<"Great! I've selected ", person.name,
                   " as the responsible person. You can now submit your leave request.">>,
                 None, Undefined, None, ""))
    /\ UNCHANGED <<cdVars, chatVars, hrVars, error, pageVars, component, role, utcShift, effectsRun,
                   input, loading, suggestions, submitting, convCalls, leaveCalls, created>>

\* Skip: setPendingLeave({ ...pendingLeave, responsible_person_id: undefined })
UCB_ClickSkip(pos) ==
    /\ UCB_Active
    /\ UCB_HasPersonPanel(messages[pos])
    /\ pendingLeave' = Some([Get(pendingLeave) EXCEPT !.responsible_person_id = None])
    /\ UNCHANGED <<cdVars, chatVars, hrVars, error, pageVars, component, role, utcShift, effectsRun,
                   messages, input, loading, suggestions, submitting, convCalls, leaveCalls,
                   created>>

UCB_Next ==
    \/ UCB_Mount
    \/ \E text \in TypedTexts : UCB_SetInput(text)
    \/ \E k \in UCB_ClickedSuggestions \cap (1..Len(suggestions)) : UCB_ClickSuggestion(k)
    \/ UCB_PressEnter
    \/ UCB_ClickSend
    \/ \E pos \in 1..Len(messages) :
          \/ UCB_ClickSubmit(pos)
          \/ \E k \in 1..Len(PersonsOf(messages[pos])) :
                UCB_SelectResponsiblePerson(pos, PersonsOf(messages[pos])[k])
          \/ UCB_ClickSkip(pos)
    \/ \E i \in 1..Len(convCalls) :
          \/ \E response \in UCB_Responses : UCB_ConversationOk(i, response)
          \/ UCB_ConversationFail(i)
    \/ \E i \in 1..Len(leaveCalls) :
          \/ UCB_CreateLeaveOk(i)
          \/ \E failure \in Failures : UCB_CreateLeaveFail(i, failure)

----------------------------------------------------------------------------
(* LeaveChatInterface with chatSlice                                        *)

ChatReply(leaveData, persons, complete, clarify) ==
    [response |-> <<"reply">>, leave_data |-> leaveData,
     suggested_responsible_persons |-> persons, is_complete |-> complete,
     needs_clarification |-> clarify]

ChatRespPartial ==
    ChatReply([EmptyLeaveData EXCEPT !.leave_type = "SICK"], <<>>, FALSE, TRUE)
ChatRespComplete == ChatReply(LeaveData1, <<Person1>>, TRUE, FALSE)

LCI_Responses == {ChatRespPartial, ChatRespComplete}

LCI_Active == component = "LeaveChatInterface" /\ effectsRun

\* the only mount effect scrolls the transcript into view
LCI_Mount ==
    /\ component = "LeaveChatInterface"
    /\ ~effectsRun
    /\ effectsRun' = TRUE
    /\ UNCHANGED <<cdVars, ucbVars, chatVars, hrVars, error, pageVars, component, role, utcShift,
                   messages, input, loading, convCalls, leaveCalls, created>>

\* mutant: the request reads the transcript of the store after addUserMessage
LCI_handleSend_SendsCurrent ==
    IF IsBlank(input) \/ loading
    THEN UNCHANGED vars
    ELSE /\ CanGrow(2)
         /\ messages' = Append(messages, UserMessage(input))
         /\ convCalls' = Append(convCalls,
                [message |-> input, chat_history |-> Append(messages, UserMessage(input)),
                 context |-> currentLeaveData])
         /\ input' = <<>>
         /\ loading' = TRUE
         /\ error' = None
         /\ UNCHANGED <<cdVars, ucbVars, chatVars, hrVars, pageVars, component, role, utcShift,
                        effectsRun, leaveCalls, created>>

\* handleSend: addUserMessage, then sendMessage.pending
LCI_handleSend ==
    IF IsBlank(input) \/ loading
    THEN UNCHANGED vars
    ELSE /\ CanGrow(2)
         /\ messages' = Append(messages, UserMessage(input))
         /\ convCalls' = Append(convCalls,
                [message |-> input, chat_history |-> messages, context |-> currentLeaveData])
         /\ input' = <<>>
         /\ loading' = TRUE
         /\ error' = None
         /\ UNCHANGED <<cdVars, ucbVars, chatVars, hrVars, pageVars, component, role, utcShift,
                        effectsRun, leaveCalls, created>>

\* onChange of the text field (disabled={loading})
LCI_SetInput(text) ==
    /\ LCI_Active
    /\ ~loading
    /\ text # input
    /\ input' = text
    /\ UNCHANGED <<cdVars, ucbVars, chatVars, hrVars, error, pageVars, component, role, utcShift,
                   effectsRun, messages, loading, convCalls, leaveCalls, created>>

\* Enter in the text field (disabled={loading})
LCI_PressEnter ==
    /\ LCI_Active
    /\ ~loading
    /\ LCI_handleSend

\* the send button (disabled={loading || !input.trim()})
LCI_ClickSend ==
    /\ LCI_Active
    /\ ~(loading \/ IsBlank(input))
    /\ LCI_handleSend

\* sendMessage.fulfilled
LCI_ConversationOk(i, payload) ==
    /\ LCI_Active
    /\ loading' = FALSE
    /\ messages' = Append(messages,
           Entry("assistant", payload.response, None, Undefined, None, ""))
    /\ currentLeaveData' = payload.leave_data
    /\ suggestedPersons' = payload.suggested_responsible_persons
    /\ isComplete' = payload.is_complete
    /\ needsClarification' = payload.needs_clarification
    /\ convCalls' = RemoveAt(convCalls, i)
    /\ UNCHANGED <<cdVars, ucbVars, hrVars, error, pageVars, component, role, utcShift, effectsRun,
                   input, leaveCalls, created>>

\* rejectWithValue(error.response?.data?.detail || 'Failed to send message')
RejectValue(failure) == IF IsSome(failure) THEN failure ELSE Some("Failed to send message")

\* sendMessage.rejected
LCI_ConversationFail(i, failure) ==
    /\ LCI_Active
    /\ loading' = FALSE
    /\ error' = RejectValue(failure)
    /\ convCalls' = RemoveAt(convCalls, i)
    /\ UNCHANGED <<cdVars, ucbVars, chatVars, hrVars, pageVars, component, role, utcShift,
                   effectsRun, messages, input, leaveCalls, created>>

\* the body handleSubmit sends: reason: currentLeaveData.reason || ''
LCI_LeaveRequest(draft) ==
    [leave_type |-> draft.leave_type,
     start_date |-> draft.start_date,
     end_date |-> draft.end_date,
     reason |-> draft.reason,
     responsible_person_id |-> draft.responsible_person_id]

\* Submit Leave Request, rendered when isComplete: handleSubmit up to the await
LCI_ClickSubmit ==
    /\ LCI_Active
    /\ isComplete
    /\ Len(leaveCalls) + Len(created) < MaxSubmits
    /\ leaveCalls' = Append(leaveCalls,
           [payload |-> LCI_LeaveRequest(currentLeaveData),
            leaveData |-> LCI_LeaveRequest(currentLeaveData),
            card |-> 0])
    /\ UNCHANGED <<cdVars, ucbVars, chatVars, hrVars, error, pageVars, component, role, utcShift,
                   effectsRun, messages, input, loading, convCalls, created>>

\* handleSubmit after the await, the call resolved: alert(...)
LCI_CreateLeaveOk(i) ==
    /\ LCI_Active
    /\ created' = Append(created, leaveCalls[i])
    /\ leaveCalls' = RemoveAt(leaveCalls, i)
    /\ UNCHANGED <<cdVars, ucbVars, chatVars, hrVars, error, pageVars, component, role, utcShift,
                   effectsRun, messages, input, loading, convCalls>>

\* handleSubmit after the await, the call rejected: console.error(...)
LCI_CreateLeaveFail(i) ==
    /\ LCI_Active
    /\ leaveCalls' = RemoveAt(leaveCalls, i)
    /\ UNCHANGED <<cdVars, ucbVars, chatVars, hrVars, error, pageVars, component, role, utcShift,
                   effectsRun, messages, input, loading, convCalls, created>>

LCI_Next ==
    \/ LCI_Mount
    \/ \E text \in TypedTexts : LCI_SetInput(text)
    \/ LCI_PressEnter
    \/ LCI_ClickSend
    \/ LCI_ClickSubmit
    \/ \E i \in 1..Len(convCalls) :
          \/ \E payload \in LCI_Responses : LCI_ConversationOk(i, payload)
          \/ \E failure \in Failures : LCI_ConversationFail(i, failure)
    \/ \E i \in 1..Len(leaveCalls) :
          \/ LCI_CreateLeaveOk(i)
          \/ LCI_CreateLeaveFail(i)

----------------------------------------------------------------------------
(* HRChatInterface with hrSlice                                             *)

HR_QuickActions ==
    << <<"Who's", Space, "on", Space, "leave", Space, "today?">>,
       <<"Show", Space, "pending", Space, "approvals">>,
       <<"Leave", Space, "trends", Space, "this", Space, "month">>,
       <<"Backend", Space, "team", Space, "availability">> >>

\* the quick-action buttons the user clicks, by position in HR_QuickActions
HR_ClickedQuickActions == {2}

HRReply(actions) ==
    [response |-> <<"reply">>, data |-> Some(NoData), suggested_actions |-> actions]

HR_Responses == {HRReply(<<>>), HRReply(<< <<"Show", Space, "details">> >>)}

HR_Active == component = "HRChatInterface" /\ effectsRun

\* the only mount effect scrolls the transcript into view
HR_Mount ==
    /\ component = "HRChatInterface"
    /\ ~effectsRun
    /\ effectsRun' = TRUE
    /\ UNCHANGED <<cdVars, ucbVars, chatVars, hrVars, error, pageVars, component, role, utcShift,
                   messages, input, loading, convCalls, leaveCalls, created>>

\* handleSend: addHRUserMessage, then sendHRMessage.pending
HR_handleSend(message) ==
    IF IsBlank(message) \/ loading
    THEN UNCHANGED vars
    ELSE /\ CanGrow(2)
         /\ messages' = Append(messages, UserMessage(message))
         /\ convCalls' = Append(convCalls, [message |-> message, chat_history |-> messages])
         /\ input' = <<>>
         /\ loading' = TRUE
         /\ error' = None
         /\ UNCHANGED <<cdVars, ucbVars, chatVars, hrVars, pageVars, component, role, utcShift,
                        effectsRun, leaveCalls, created>>

\* onChange of the text field (disabled={loading})
HR_SetInput(text) ==
    /\ HR_Active
    /\ ~loading
    /\ text # input
    /\ input' = text
    /\ UNCHANGED <<cdVars, ucbVars, chatVars, hrVars, error, pageVars, component, role, utcShift,
                   effectsRun, messages, loading, convCalls, leaveCalls, created>>

\* Enter in the text field (disabled={loading})
HR_PressEnter ==
    /\ HR_Active
    /\ ~loading
    /\ HR_handleSend(input)

\* the send button (disabled={loading || !input.trim()})
HR_ClickSend ==
    /\ HR_Active
    /\ ~(loading \/ IsBlank(input))
    /\ HR_handleSend(input)

\* a quick-action button of the header: always enabled
HR_ClickQuickAction(k) ==
    /\ HR_Active
    /\ HR_handleSend(HR_QuickActions[k])

\* a suggested-action chip: rendered when suggestedActions.length > 0 && !loading
HR_ClickSuggestedAction(k) ==
    /\ HR_Active
    /\ ~loading
    /\ HR_handleSend(suggestedActions[k])

\* sendHRMessage.fulfilled
HR_ConversationOk(i, payload) ==
    /\ HR_Active
    /\ loading' = FALSE
    /\ messages' = Append(messages,
           Entry("assistant", payload.response, None, Undefined, None, ""))
    /\ currentData' = payload.data
    /\ suggestedActions' = payload.suggested_actions
    /\ convCalls' = RemoveAt(convCalls, i)
    /\ UNCHANGED <<cdVars, ucbVars, chatVars, error, pageVars, component, role, utcShift, effectsRun,
                   input, leaveCalls, created>>

\* mutant: the rejected reducer records the error and leaves loading set
HR_ConversationFail_StaysLoading(i, failure) ==
    /\ HR_Active
    /\ error' = RejectValue(failure)
    /\ convCalls' = RemoveAt(convCalls, i)
    /\ UNCHANGED <<cdVars, ucbVars, chatVars, hrVars, pageVars, component, role, utcShift,
                   effectsRun, messages, input, loading, leaveCalls, created>>

\* sendHRMessage.rejected
HR_ConversationFail(i, failure) ==
    /\ HR_Active
    /\ loading' = FALSE
    /\ error' = RejectValue(failure)
    /\ convCalls' = RemoveAt(convCalls, i)
    /\ UNCHANGED <<cdVars, ucbVars, chatVars, hrVars, pageVars, component, role, utcShift,
                   effectsRun, messages, input, leaveCalls, created>>

HR_Next ==
    \/ HR_Mount
    \/ \E text \in TypedTexts : HR_SetInput(text)
    \/ HR_PressEnter
    \/ HR_ClickSend
    \/ \E k \in HR_ClickedQuickActions : HR_ClickQuickAction(k)
    \/ \E k \in 1..Len(suggestedActions) : HR_ClickSuggestedAction(k)
    \/ \E i \in 1..Len(convCalls) :
          \/ \E payload \in HR_Responses : HR_ConversationOk(i, payload)
          \/ \E failure \in Failures : HR_ConversationFail(i, failure)

----------------------------------------------------------------------------
(* The router (routes/AppRoutes.tsx with components/auth/ProtectedRoute.tsx) *)
(* and the pages outside the chat: ApprovalsPage, the pending-approvals      *)
(* panel of DashboardPage and TeamViewPage.  A session of the pages starts   *)
(* with the router about to render a path, or, for ApprovalsPage, which no   *)
(* route renders, with the page itself.  The page state shares component,    *)
(* role, effectsRun and loading with the chat; the manager endpoints are the *)
(* three sequences of calls in flight.                                       *)

\* the calls and timers of a page that are pending at one time
MaxCalls == 2

\* the pending leaves of the backend: policy_compliance may be missing
Leaves ==
    << [leave_id |-> 1, policy_compliance |-> Some([has_violations |-> FALSE])],
       [leave_id |-> 2, policy_compliance |-> Some([has_violations |-> TRUE])],
       [leave_id |-> 3, policy_compliance |-> None] >>

\* managersApi.getPendingLeaves: the leaves not decided yet
PendingOf(done) == SelectSeq(Leaves, LAMBDA l : l.leave_id \notin done)

\* the state of the pages before any of them is mounted (the useState initial values)
PagesUnmounted ==
    /\ pendingLeaves = <<>>
    /\ selectedLeave = Null
    /\ comments = <<>>
    /\ pendingApprovals = <<>>
    /\ loadingApprovals = FALSE
    /\ processingLeaveId = Null
    /\ activeTab = "overview"
    /\ overview = FALSE
    /\ calendar = None
    /\ insights = None
    /\ forecast = None
    /\ calendarDays = 30
    /\ insightsPeriod = "last_30_days"
    /\ forecastDays = 14
    /\ timers = <<>>
    /\ approvalCalls = <<>>
    /\ fetchCalls = <<>>
    /\ teamCalls = <<>>
    /\ decided = {}

\* ProtectedRoute: the redirect it renders, or its children
ProtectedRoute(requiredRole) ==
    IF ~token \/ ~user THEN "/login"
    ELSE IF IsSome(requiredRole) /\ role # Get(requiredRole) THEN "/dashboard"
    ELSE "children"

\* the requiredRole of the ProtectedRoute around the element of a path
RequiredRole(p) ==
    CASE p = "/team-view" -> Some("MANAGER")
      [] p = "/analytics" -> Some("HR")
      [] OTHER -> None

\* the element of a path
PageOf(p) ==
    CASE p = "/dashboard" -> "DashboardPage"
      [] p = "/team-view" -> "TeamViewPage"
      [] p = "/analytics" -> "AnalyticsPage"
      [] OTHER -> "LoginPage"

\* the location after the redirects of the layout route's ProtectedRoute and of the
\* one around the element
Target(p) ==
    IF ProtectedRoute(None) # "children" THEN ProtectedRoute(None)
    ELSE IF ProtectedRoute(RequiredRole(p)) # "children" THEN ProtectedRoute(RequiredRole(p))
    ELSE p

\* the router renders the location; TeamViewPage starts with loading = true
AppRoutes_Render ==
    /\ component = "AppRoutes"
    /\ path' = Target(path)
    /\ component' = PageOf(Target(path))
    /\ loading' = (PageOf(Target(path)) = "TeamViewPage")
    /\ UNCHANGED <<chatOnlyVars, role, effectsRun, token, user, apVars, dpVars, tvVars,
                   approvalCalls, fetchCalls, decided>>

----------------------------------------------------------------------------
(* ApprovalsPage (pages/manager/ApprovalsPage.tsx)                          *)

\* useEffect(() => { fetchPendingLeaves(); }, [])
AP_Mount ==
    /\ component = "ApprovalsPage"
    /\ ~effectsRun
    /\ effectsRun' = TRUE
    /\ fetchCalls' = Append(fetchCalls, [then |-> Null])
    /\ UNCHANGED <<chatOnlyVars, component, role, loading, routeVars, apVars, dpVars,
                   tvVars, approvalCalls, decided>>

\* fetchPendingLeaves after the await: the call resolved (ok) or rejected
AP_FetchDone(i, ok) ==
    /\ component = "ApprovalsPage"
    /\ pendingLeaves' = IF ok THEN PendingOf(decided) ELSE pendingLeaves
    /\ loading' = FALSE
    /\ fetchCalls' = RemoveAt(fetchCalls, i)
    /\ UNCHANGED <<chatOnlyVars, component, role, effectsRun, routeVars, selectedLeave,
                   comments, dpVars, tvVars, approvalCalls, decided>>

\* Review & Decide, shown for the items other than the selected one
AP_ClickReview(k) ==
    /\ component = "ApprovalsPage"
    /\ ~loading
    /\ pendingLeaves[k].leave_id # selectedLeave
    /\ selectedLeave' = pendingLeaves[k].leave_id
    /\ UNCHANGED <<chatOnlyVars, component, role, effectsRun, loading, routeVars,
                   pendingLeaves, comments, dpVars, tvVars, approvalCalls, fetchCalls,
                   decided>>

\* onChange of the comment field of the form of the selected item k
AP_SetComments(k, text) ==
    /\ component = "ApprovalsPage"
    /\ ~loading
    /\ pendingLeaves[k].leave_id = selectedLeave
    /\ text # comments
    /\ comments' = text
    /\ UNCHANGED <<chatOnlyVars, component, role, effectsRun, loading, routeVars,
                   pendingLeaves, selectedLeave, dpVars, tvVars, approvalCalls, fetchCalls,
                   decided>>

\* Cancel of the form of the selected item k
AP_ClickCancel(k) ==
    /\ component = "ApprovalsPage"
    /\ ~loading
    /\ pendingLeaves[k].leave_id = selectedLeave
    /\ selectedLeave' = Null
    /\ comments' = <<>>
    /\ UNCHANGED <<chatOnlyVars, component, role, effectsRun, loading, routeVars,
                   pendingLeaves, dpVars, tvVars, approvalCalls, fetchCalls, decided>>

\* Approve / Reject of the form of the selected item k: handleApproval up to the await;
\* the handler keeps the pendingLeaves of the render it was created in
AP_ClickDecide(k, approved) ==
    /\ component = "ApprovalsPage"
    /\ ~loading
    /\ pendingLeaves[k].leave_id = selectedLeave
    /\ Len(approvalCalls) < MaxCalls
    /\ approvalCalls' = Append(approvalCalls,
           [leave_id |-> pendingLeaves[k].leave_id, approved |-> approved,
            comments |-> IF comments # <<>> THEN Some(comments) ELSE None,
            pendingLeaves |-> pendingLeaves])
    /\ UNCHANGED <<chatOnlyVars, component, role, effectsRun, loading, routeVars, apVars,
                   dpVars, tvVars, fetchCalls, decided>>

\* handleApproval after the await.  Resolved (ok):
\* setPendingLeaves(pendingLeaves.filter(l => l.leave.id !== leaveId)), the form is
\* closed.  Rejected: an error toast
AP_ApprovalDone(i, ok) ==
    /\ component = "ApprovalsPage"
    /\ IF ok
       THEN /\ decided' = decided \cup {approvalCalls[i].leave_id}
            /\ pendingLeaves' = SelectSeq(approvalCalls[i].pendingLeaves,
                                          LAMBDA l : l.leave_id # approvalCalls[i].leave_id)
            /\ selectedLeave' = Null
            /\ comments' = <<>>
       ELSE UNCHANGED <<decided, apVars>>
    /\ approvalCalls' = RemoveAt(approvalCalls, i)
    /\ UNCHANGED <<chatOnlyVars, component, role, effectsRun, loading, routeVars, dpVars,
                   tvVars, fetchCalls>>

----------------------------------------------------------------------------
(* The pending-approvals panel of DashboardPage (pages/employee/DashboardPage.tsx). *)
(* sortedApprovals only orders the list on screen and is left out.                 *)

\* the panel is rendered for user?.role === 'MANAGER' || user?.role === 'HR', and the
\* list with its buttons takes the place of the spinner when loadingApprovals is false
DP_ListShown ==
    /\ component = "DashboardPage"
    /\ effectsRun
    /\ role \in {"MANAGER", "HR"}
    /\ ~loadingApprovals

\* loadPendingApprovals up to the await; then is the leave of the handleApproveReject
\* that awaits the load, Null if none does
DP_loadPendingApprovals(then) ==
    /\ loadingApprovals' = TRUE
    /\ fetchCalls' = Append(fetchCalls, [then |-> then])

\* the mount effect: the approvals are loaded for a manager or HR
DP_Mount ==
    /\ component = "DashboardPage"
    /\ ~effectsRun
    /\ effectsRun' = TRUE
    /\ IF role \in {"MANAGER", "HR"}
       THEN DP_loadPendingApprovals(Null)
       ELSE UNCHANGED <<loadingApprovals, fetchCalls>>
    /\ UNCHANGED <<chatOnlyVars, component, role, loading, routeVars, apVars,
                   pendingApprovals, processingLeaveId, tvVars, approvalCalls, decided>>

\* Refresh (disabled={loadingApprovals})
DP_ClickRefresh ==
    /\ DP_ListShown
    /\ Len(approvalCalls) + Len(fetchCalls) < MaxCalls
    /\ DP_loadPendingApprovals(Null)
    /\ UNCHANGED <<chatOnlyVars, component, role, effectsRun, loading, routeVars, apVars,
                   pendingApprovals, processingLeaveId, tvVars, approvalCalls, decided>>

\* loadPendingApprovals after the await, the call resolved (ok) or rejected, and the
\* finally of the handleApproveReject that awaited it
DP_FetchDone(i, ok) ==
    /\ component = "DashboardPage"
    /\ pendingApprovals' = IF ok THEN PendingOf(decided) ELSE pendingApprovals
    /\ loadingApprovals' = FALSE
    /\ processingLeaveId' = IF fetchCalls[i].then # Null THEN Null ELSE processingLeaveId
    /\ fetchCalls' = RemoveAt(fetchCalls, i)
    /\ UNCHANGED <<chatOnlyVars, component, role, effectsRun, loading, routeVars, apVars,
                   tvVars, approvalCalls, decided>>

\* item.policy_compliance?.has_violations
HasViolations(item) ==
    IsSome(item.policy_compliance) /\ Get(item.policy_compliance).has_violations

\* mutant: the Approve button is disabled by the call in progress alone
ApproveDisabled_IgnoresViolations(item) == processingLeaveId = item.leave_id

\* Approve: disabled={processingLeaveId === item.leave_id || item.policy_compliance?.has_violations}
ApproveDisabled(item) == processingLeaveId = item.leave_id \/ HasViolations(item)

\* Reject: disabled={processingLeaveId === item.leave_id}
RejectDisabled(item) == processingLeaveId = item.leave_id

\* handleApproveReject up to the await
DP_handleApproveReject(leaveId, approved, reason) ==
    /\ Len(approvalCalls) + Len(fetchCalls) < MaxCalls
    /\ processingLeaveId' = leaveId
    /\ approvalCalls' = Append(approvalCalls,
           [leave_id |-> leaveId, approved |-> approved,
            comments |-> IF reason # <<>> THEN reason
                         ELSE IF approved THEN <<"Approved">> ELSE <<"Rejected">>])
    /\ UNCHANGED <<chatOnlyVars, component, role, effectsRun, loading, routeVars, apVars,
                   pendingApprovals, loadingApprovals, tvVars, fetchCalls, decided>>

\* the Approve button of an item
DP_ClickApprove(k) ==
    /\ DP_ListShown
    /\ IF ApproveDisabled(pendingApprovals[k])
       THEN UNCHANGED vars
       ELSE DP_handleApproveReject(pendingApprovals[k].leave_id, TRUE, <<>>)

\* the Reject button of an item: prompt, then handleApproveReject(id, false, reason || undefined)
DP_ClickReject(k, reason) ==
    /\ DP_ListShown
    /\ IF RejectDisabled(pendingApprovals[k])
       THEN UNCHANGED vars
       ELSE DP_handleApproveReject(pendingApprovals[k].leave_id, FALSE, reason)

\* handleApproveReject after the first await.  Resolved (ok): await
\* loadPendingApprovals().  Rejected: catch, then the finally
DP_ApprovalDone(i, ok) ==
    /\ component = "DashboardPage"
    /\ IF ok
       THEN /\ decided' = decided \cup {approvalCalls[i].leave_id}
            /\ DP_loadPendingApprovals(approvalCalls[i].leave_id)
            /\ UNCHANGED processingLeaveId
       ELSE /\ processingLeaveId' = Null
            /\ UNCHANGED <<decided, loadingApprovals, fetchCalls>>
    /\ approvalCalls' = RemoveAt(approvalCalls, i)
    /\ UNCHANGED <<chatOnlyVars, component, role, effectsRun, loading, routeVars, apVars,
                   pendingApprovals, tvVars>>

----------------------------------------------------------------------------
(* TeamViewPage (pages/manager/TeamViewPage.tsx)                            *)

\* useEffect(() => { loadData(); }, []): loadData up to the await
TV_Mount ==
    /\ component = "TeamViewPage"
    /\ ~effectsRun
    /\ effectsRun' = TRUE
    /\ loading' = TRUE
    /\ teamCalls' = Append(teamCalls,
           [kind |-> "loadData", value |-> <<calendarDays, insightsPeriod, forecastDays>>])
    /\ UNCHANGED <<chatOnlyVars, component, role, routeVars, apVars, dpVars, activeTab,
                   overview, calendar, insights, forecast, calendarDays, insightsPeriod,
                   forecastDays, timers, approvalCalls, fetchCalls, decided>>

\* a tab button
TV_ClickTab(tab) ==
    /\ component = "TeamViewPage"
    /\ effectsRun
    /\ ~loading
    /\ tab # activeTab
    /\ activeTab' = tab
    /\ UNCHANGED <<chatOnlyVars, component, role, effectsRun, loading, routeVars, apVars,
                   dpVars, overview, calendar, insights, forecast, calendarDays,
                   insightsPeriod, forecastDays, timers, teamCalls, approvalCalls,
                   fetchCalls, decided>>

\* onChange of the select of a tab: setCalendarDays(v); setTimeout(refreshCalendar, 100),
\* and the same for the insights period and the forecast range.  The refresh function
\* passed to setTimeout is the one of the render the select was created in and reads
\* the state of that render (captured); selected is the value the change has just set
TV_Change(kind, v) ==
    /\ component = "TeamViewPage"
    /\ effectsRun
    /\ ~loading
    /\ activeTab = kind
    /\ Len(timers) + Len(teamCalls) < MaxCalls
    /\ \/ /\ kind = "calendar"
          /\ IsSome(calendar)
          /\ v # calendarDays
          /\ calendarDays' = v
          /\ timers' = Append(timers,
                 [kind |-> kind, captured |-> calendarDays, selected |-> v])
          /\ UNCHANGED <<insightsPeriod, forecastDays>>
       \/ /\ kind = "insights"
          /\ IsSome(insights)
          /\ v # insightsPeriod
          /\ insightsPeriod' = v
          /\ timers' = Append(timers,
                 [kind |-> kind, captured |-> insightsPeriod, selected |-> v])
          /\ UNCHANGED <<calendarDays, forecastDays>>
       \/ /\ kind = "forecast"
          /\ IsSome(forecast)
          /\ v # forecastDays
          /\ forecastDays' = v
          /\ timers' = Append(timers,
                 [kind |-> kind, captured |-> forecastDays, selected |-> v])
          /\ UNCHANGED <<calendarDays, insightsPeriod>>
    /\ UNCHANGED <<chatOnlyVars, component, role, effectsRun, loading, routeVars, apVars,
                   dpVars, activeTab, overview, calendar, insights, forecast, teamCalls,
                   approvalCalls, fetchCalls, decided>>

\* the oldest timer runs: refreshCalendar / refreshInsights / refreshForecast up to the
\* await, with the value its closure holds
TV_Timeout ==
    /\ component = "TeamViewPage"
    /\ timers # <<>>
    /\ teamCalls' = Append(teamCalls,
           [kind |-> Head(timers).kind, value |-> Head(timers).captured,
            selected |-> Head(timers).selected])
    /\ timers' = Tail(timers)
    /\ UNCHANGED <<chatOnlyVars, component, role, effectsRun, loading, routeVars, apVars,
                   dpVars, activeTab, overview, calendar, insights, forecast,
                   calendarDays, insightsPeriod, forecastDays, approvalCalls, fetchCalls,
                   decided>>

\* loadData or a refresh after the await: the call resolved (ok) or rejected
TV_CallDone(i, ok) ==
    /\ component = "TeamViewPage"
    /\ \A call \in {teamCalls[i]} :
          /\ overview' = (overview \/ (ok /\ call.kind = "loadData"))
          /\ calendar' = IF ok /\ call.kind = "loadData" THEN Some(call.value[1])
                         ELSE IF ok /\ call.kind = "calendar" THEN Some(call.value)
                         ELSE calendar
          /\ insights' = IF ok /\ call.kind = "loadData" THEN Some(call.value[2])
                         ELSE IF ok /\ call.kind = "insights" THEN Some(call.value)
                         ELSE insights
          /\ forecast' = IF ok /\ call.kind = "loadData" THEN Some(call.value[3])
                         ELSE IF ok /\ call.kind = "forecast" THEN Some(call.value)
                         ELSE forecast
          /\ loading' = IF call.kind = "loadData" THEN FALSE ELSE loading
    /\ teamCalls' = RemoveAt(teamCalls, i)
    /\ UNCHANGED <<chatOnlyVars, component, role, effectsRun, routeVars, apVars, dpVars,
                   activeTab, calendarDays, insightsPeriod, forecastDays, timers,
                   approvalCalls, fetchCalls, decided>>

----------------------------------------------------------------------------

Init ==
    /\ component \in Components
    /\ role \in IF component = "UnifiedChatBox" THEN Roles
               ELSE IF component = "HRChatInterface" THEN {"HR"} ELSE {"EMPLOYEE"}
    /\ utcShift \in IF component = "ChatDashboard" THEN UtcShifts ELSE {0}
    /\ effectsRun = FALSE
    /\ messages = <<>>
    /\ input = <<>>
    /\ loading = FALSE
    /\ isSubmitting = FALSE
    /\ activeComponentIndex = Null
    /\ pickers = <<>>
    /\ suggestions = <<>>
    /\ pendingLeave = None
    /\ submitting = FALSE
    /\ currentLeaveData = EmptyLeaveData
    /\ suggestedPersons = <<>>
    /\ isComplete = FALSE
    /\ needsClarification = FALSE
    /\ error = None
    /\ currentData = None
    /\ suggestedActions = <<>>
    /\ convCalls = <<>>
    /\ leaveCalls = <<>>
    /\ created = <<>>
    /\ token = TRUE
    /\ user = TRUE
    /\ path = ""
    /\ PagesUnmounted

Next == CD_Next \/ UCB_Next \/ LCI_Next \/ HR_Next

Spec == Init /\ [][Next]_vars

\* sessions of sends that are all answered: mount, typing, typed and widget-synthesized
\* sends, and successful conversational responses; no failure and no submission
CD_SendsNext ==
    \/ CD_Mount
    \/ \E text \in TypedTexts : CD_SetInput(text)
    \/ CD_PressEnter
    \/ CD_ClickSend
    \/ \E pos \in 1..Len(messages) :
          \/ \E action \in ClickedQuickActions : CD_ClickQuickAction(pos, action)
          \/ \E type \in ClickedLeaveTypes : CD_ClickLeaveType(pos, type)
          \/ \E day \in Days : CD_ClickDay(pos, day)
          \/ CD_ClickConfirmSelection(pos)
          \/ CD_ClickEdit(pos)
    \/ \E i \in 1..Len(convCalls) : \E response \in Responses : CD_ConversationOk(i, response)

UCB_SendsNext ==
    \/ UCB_Mount
    \/ \E text \in TypedTexts : UCB_SetInput(text)
    \/ \E k \in UCB_ClickedSuggestions \cap (1..Len(suggestions)) : UCB_ClickSuggestion(k)
    \/ UCB_PressEnter
    \/ UCB_ClickSend
    \/ \E i \in 1..Len(convCalls) :
          \E response \in UCB_Responses : UCB_ConversationOk(i, response)

LCI_SendsNext ==
    \/ LCI_Mount
    \/ \E text \in TypedTexts : LCI_SetInput(text)
    \/ LCI_PressEnter
    \/ LCI_ClickSend
    \/ \E i \in 1..Len(convCalls) :
          \E payload \in LCI_Responses : LCI_ConversationOk(i, payload)

HR_SendsNext ==
    \/ HR_Mount
    \/ \E text \in TypedTexts : HR_SetInput(text)
    \/ HR_PressEnter
    \/ HR_ClickSend
    \/ \E k \in HR_ClickedQuickActions : HR_ClickQuickAction(k)
    \/ \E k \in 1..Len(suggestedActions) : HR_ClickSuggestedAction(k)
    \/ \E i \in 1..Len(convCalls) :
          \E payload \in HR_Responses : HR_ConversationOk(i, payload)

\* a conversational call in flight completes: its promise settles, resolved or rejected
CompleteConversation ==
    \E i \in 1..Len(convCalls) :
        \/ \E response \in Responses : CD_ConversationOk(i, response)
        \/ CD_ConversationFail(i)
        \/ \E response \in UCB_Responses : UCB_ConversationOk(i, response)
        \/ UCB_ConversationFail(i)
        \/ \E payload \in LCI_Responses : LCI_ConversationOk(i, payload)
        \/ \E failure \in Failures : LCI_ConversationFail(i, failure)
        \/ \E payload \in HR_Responses : HR_ConversationOk(i, payload)
        \/ \E failure \in Failures : HR_ConversationFail(i, failure)

\* a create-leave call in flight completes
CompleteSubmission ==
    \E i \in 1..Len(leaveCalls) :
        \/ CD_CreateLeaveOk(i)
        \/ \E failure \in Failures : CD_CreateLeaveFail(i, failure)
        \/ UCB_CreateLeaveOk(i)
        \/ \E failure \in Failures : UCB_CreateLeaveFail(i, failure)
        \/ LCI_CreateLeaveOk(i)
        \/ LCI_CreateLeaveFail(i)

\* every call eventually completes: each request settles on its own
LiveSpec ==
    Init /\ [][Next]_vars /\ WF_vars(CompleteConversation) /\ WF_vars(CompleteSubmission)

SendsNext == CD_SendsNext \/ UCB_SendsNext \/ LCI_SendsNext \/ HR_SendsNext

SendsOnly == Init /\ [][SendsNext]_vars

\* a session of the pages: the router renders a path for any authentication state, or
\* ApprovalsPage is rendered for a manager
PagesInit ==
    /\ component \in {"AppRoutes", "ApprovalsPage"}
    /\ token \in IF component = "AppRoutes" THEN BOOLEAN ELSE {TRUE}
    /\ user \in IF component = "AppRoutes" THEN BOOLEAN ELSE {TRUE}
    /\ role \in IF component = "AppRoutes" /\ user THEN Roles ELSE {"MANAGER"}
    /\ path \in IF component = "AppRoutes"
               THEN {"/dashboard", "/team-view", "/analytics"} ELSE {""}
    /\ loading = (component = "ApprovalsPage")
    /\ effectsRun = FALSE
    /\ utcShift = 0
    /\ messages = <<>>
    /\ input = <<>>
    /\ isSubmitting = FALSE
    /\ activeComponentIndex = Null
    /\ pickers = <<>>
    /\ suggestions = <<>>
    /\ pendingLeave = None
    /\ submitting = FALSE
    /\ currentLeaveData = EmptyLeaveData
    /\ suggestedPersons = <<>>
    /\ isComplete = FALSE
    /\ needsClarification = FALSE
    /\ error = None
    /\ currentData = None
    /\ suggestedActions = <<>>
    /\ convCalls = <<>>
    /\ leaveCalls = <<>>
    /\ created = <<>>
    /\ PagesUnmounted

\* the paths opened are /dashboard, /team-view and /analytics; the comment typed is
\* "ok"; the options selected are two of each select
PagesNext ==
    \/ AppRoutes_Render
    \/ AP_Mount
    \/ \E i \in 1..Len(fetchCalls) : \E ok \in BOOLEAN : AP_FetchDone(i, ok)
    \/ \E k \in 1..Len(pendingLeaves) :
          \/ AP_ClickReview(k)
          \/ \E text \in {<<>>, <<"ok">>} : AP_SetComments(k, text)
          \/ AP_ClickCancel(k)
          \/ \E approved \in BOOLEAN : AP_ClickDecide(k, approved)
    \/ \E i \in 1..Len(approvalCalls) : \E ok \in BOOLEAN : AP_ApprovalDone(i, ok)
    \/ DP_Mount
    \/ DP_ClickRefresh
    \/ \E i \in 1..Len(fetchCalls) : \E ok \in BOOLEAN : DP_FetchDone(i, ok)
    \/ \E k \in 1..Len(pendingApprovals) :
          \/ DP_ClickApprove(k)
          \/ \E reason \in {<<>>, <<"ok">>} : DP_ClickReject(k, reason)
    \/ \E i \in 1..Len(approvalCalls) : \E ok \in BOOLEAN : DP_ApprovalDone(i, ok)
    \/ TV_Mount
    \/ \E tab \in {"overview", "calendar", "insights", "forecast"} : TV_ClickTab(tab)
    \/ \E v \in {14, 30} : TV_Change("calendar", v)
    \/ \E v \in {"last_30_days", "last_quarter"} : TV_Change("insights", v)
    \/ \E v \in {7, 14} : TV_Change("forecast", v)
    \/ TV_Timeout
    \/ \E i \in 1..Len(teamCalls) : \E ok \in BOOLEAN : TV_CallDone(i, ok)

PagesSpec == PagesInit /\ [][PagesNext]_vars

----------------------------------------------------------------------------
(* Properties                                                               *)

Max(S) == CHOOSE x \in S : \A y \in S : y <= x

Last(seq) == seq[Len(seq)]

Positions == 1..Len(messages)

\* the entry renders a widget with controls
HasControls(msg) ==
    Widget(msg) \in {"GreetingCard", "LeaveTypeSelector", "DatePickerCard", "ConfirmationCard"}

\* the widget of the entry at position p takes clicks
Interactive(p) == HasControls(messages[p]) /\ ~IsDisabled(messages[p])

IsSubmitSuccess(msg) ==
    msg.role = "assistant" /\ msg.content # <<>> /\
    msg.content[1] = "Request submitted successfully.\n\nType: "

IsSubmitError(msg) ==
    msg.role = "assistant" /\ msg.content # <<>> /\
    msg.content[1] = "Failed to submit request. "

\* the new transcript is the old one with exactly one entry appended
AppendsOne == Len(messages') = Len(messages) + 1 /\ SubSeq(messages', 1, Len(messages)) = messages

\* C1 as stated: in ChatDashboard, after mount, the active pointer equals the index of
\* the most recent assistant entry that carried a ui_state.
C1_PointerIsLastUiStateEntry ==
    CD_Active =>
        LET tagged == {p \in Positions :
                          messages[p].role = "assistant" /\ IsSome(messages[p].ui_state)}
        IN  tagged # {} /\ activeComponentIndex = messages[Max(tagged)].index

\* C1 amended: in ChatDashboard, after mount, the active pointer equals the index of the
\* most recent entry appended by mount or by a successful conversational response
\* (with or without ui_state), unless a submission-success entry was appended after
\* it, in which case the pointer is null; failed sends and failed submissions
\* never change it.
C1_PointerFollowsLastResponse ==
    CD_Active =>
        LET moving == {p \in Positions :
                          messages[p].index # Undefined \/ IsSubmitSuccess(messages[p])}
            last == messages[Max(moving)]
        IN  /\ moving # {}
            /\ activeComponentIndex = IF last.index # Undefined THEN last.index ELSE Null

\* a failed send after a response without ui_state: the pointer is still on that response
C1_Witness ==
    /\ CD_Active
    /\ Len(messages) >= 4
    /\ Last(messages) = CD_SendErrorMessage
    /\ \E p \in Positions :
          /\ messages[p].index = activeComponentIndex
          /\ messages[p].ui_state = None

\* C2: in ChatDashboard every entry that carries an index has an index equal to its
\* (zero-based) position in the transcript, and indices strictly increase, for
\* every interleaving of sends with submission completions.
C2_IndexIsPosition ==
    CD_Active =>
        /\ \A p \in Positions : messages[p].index # Undefined => messages[p].index = p - 1
        /\ \A p, q \in Positions :
              (p < q /\ messages[p].index # Undefined /\ messages[q].index # Undefined)
                  => messages[p].index < messages[q].index

\* C3: in ChatDashboard and UnifiedChatBox at most one create-leave call is in flight,
\* and while one is in flight every Submit control is disabled.
C3_SingleSubmissionInFlight ==
    component \in {"ChatDashboard", "UnifiedChatBox"} =>
        /\ Len(leaveCalls) <= 1
        /\ Len(leaveCalls) = 1 =>
              /\ component = "ChatDashboard" =>
                    /\ isSubmitting
                    /\ \A p \in Positions :
                          Widget(messages[p]) = "ConfirmationCard"
                              => ConfirmDisabled(messages[p])
              /\ component = "UnifiedChatBox" => submitting

\* a submission is in flight from the card that is still the active entry
C3_Witness ==
    /\ component = "ChatDashboard"
    /\ Len(leaveCalls) = 1
    /\ \E p \in Positions :
          Widget(messages[p]) = "ConfirmationCard" /\ ~IsDisabled(messages[p])

\* C4: in LeaveChatInterface at most one create-leave call is in flight: a second click
\* on Submit Leave Request while one is in flight issues no second call.
C4_LeaveChatSingleSubmission ==
    component = "LeaveChatInterface" => Len(leaveCalls) <= 1

\* C5: in each chat component no request is issued and no user entry appended for an
\* empty or whitespace-only text, and while a conversational call is in flight no
\* step (typed send, widget or quick-action click) appends a user entry or issues a
\* second call; so at most one conversational call is in flight.
C5_SendGuard ==
    /\ [](/\ Len(convCalls) <= 1
          /\ loading <=> Len(convCalls) = 1
          /\ \A i \in 1..Len(convCalls) : ~(Trim(convCalls[i].message) = <<>>)
          /\ \A p \in Positions :
                messages[p].role = "user" => ~(Trim(messages[p].content) = <<>>))
    /\ [][loading =>
            /\ Len(convCalls') <= Len(convCalls)
            /\ Len(messages') > Len(messages) => Last(messages').role # "user"]_vars

\* a call is in flight while a greeting widget is still interactive and white space is
\* typed in no field: a click on it reaches handleSend and is suppressed
C5_Witness ==
    /\ CD_Active
    /\ loading
    /\ Len(convCalls) = 1
    /\ \E p \in Positions : Widget(messages[p]) = "GreetingCard" /\ Interactive(p)

C7_SubmittedCardStaysClosed ==
    /\ [](CD_Active =>
            \A k \in 1..Len(created) :
                /\ IsDisabled(messages[created[k].card])
                /\ \A j \in 1..Len(created) : created[j].card = created[k].card => j = k
                /\ \A l \in 1..Len(leaveCalls) : leaveCalls[l].card # created[k].card)
    /\ [][\A i \in 1..Len(leaveCalls) :
             CD_CreateLeaveOk(i) =>
                 /\ AppendsOne
                 /\ Last(messages').role = "assistant"
                 /\ Last(messages').ui_state = None
                 /\ activeComponentIndex' = Null
                 /\ \A p \in 1..Len(messages') : ~Interactive(p)']_vars

\* a request was created and a later response has made another widget active
C7_Witness ==
    /\ CD_Active
    /\ Len(created) = 1
    /\ activeComponentIndex # Null
    /\ \E p \in Positions : p > created[1].card /\ Interactive(p)

\* C8 as stated: when a leave submission fails, the same Submit control is enabled again
\* once the in-flight flag has reset.
C8_FailedSubmitReenablesCard ==
    [][\A i \in 1..Len(leaveCalls) : \A failure \in Failures :
          CD_CreateLeaveFail(i, failure) =>
              \A card \in {leaveCalls[i].card} : ~ConfirmDisabled(messages[card])']_vars

\* C8 amended: when a leave submission fails, exactly one assistant error entry is
\* appended, the active pointer and the leave draft are left untouched and the
\* in-flight flag resets; the same Submit control is enabled again provided its entry
\* is still the active one (in ChatDashboard a conversational response that arrived
\* during the submission has moved the pointer and the card stays disabled).
C8_FailedSubmitAllowsRetry ==
    [][\A i \in 1..Len(leaveCalls) : \A failure \in Failures :
          /\ CD_CreateLeaveFail(i, failure) =>
                \A card \in {leaveCalls[i].card} :
                    /\ AppendsOne
                    /\ IsSubmitError(Last(messages'))
                    /\ Last(messages').ui_state = None
                    /\ activeComponentIndex' = activeComponentIndex
                    /\ LeaveDataOf(messages'[card]) = leaveCalls[i].leaveData
                    /\ ~isSubmitting'
                    /\ messages[card].index = activeComponentIndex
                          => ~ConfirmDisabled(messages[card])'
          /\ UCB_CreateLeaveFail(i, failure) =>
                /\ AppendsOne
                /\ Last(messages').role = "assistant"
                /\ pendingLeave' = pendingLeave
                /\ IsSome(pendingLeave')
                /\ ~submitting']_vars

\* a submission has failed and its card takes a click on Submit again
C8_Witness ==
    /\ CD_Active
    /\ IsSubmitError(Last(messages))
    /\ \E p \in Positions :
          Widget(messages[p]) = "ConfirmationCard" /\ ~ConfirmDisabled(messages[p])

\* C9: in ChatDashboard every successful conversational response is appended as one
\* assistant entry and the pointer is set to that entry's index, with or without
\* ui_state; every earlier entry is disabled.
C9_ResponseTakesPointer ==
    [][\A i \in 1..Len(convCalls) : \A response \in Responses :
          CD_ConversationOk(i, response) =>
              /\ AppendsOne
              /\ Last(messages').role = "assistant"
              /\ Last(messages').content = response.response
              /\ activeComponentIndex' = Last(messages').index
              /\ activeComponentIndex' # Undefined
              /\ \A p \in Positions : IsDisabled(messages[p])']_vars

\* a response without ui_state holds the pointer
C9_Witness ==
    /\ CD_Active
    /\ Len(messages) >= 3
    /\ Last(messages).index = activeComponentIndex
    /\ Last(messages).ui_state = None
    /\ Last(messages).content = <<"reply">>

\* C10: in ChatDashboard at most one entry's widget is interactive, it is the entry whose
\* index equals the active pointer, and a click on a greeting, leave-type, date-picker
\* or confirmation control of any other entry changes nothing: no send, no
\* create-leave call, no change of the transcript.
C10_OnlyActiveEntryTakesClicks ==
    /\ [](CD_Active =>
            /\ Cardinality({p \in Positions : Interactive(p)}) <= 1
            /\ \A p \in Positions :
                  Interactive(p) => messages[p].index = activeComponentIndex)
    /\ [][\A pos \in Positions :
             (messages[pos].index # activeComponentIndex /\
              (\/ \E action \in QuickActions : CD_ClickQuickAction(pos, action)
               \/ \E type \in LeaveTypes : CD_ClickLeaveType(pos, type)
               \/ \E day \in Days : CD_ClickDay(pos, day)
               \/ CD_ClickConfirmSelection(pos)
               \/ CD_ClickSubmit(pos)
               \/ CD_ClickEdit(pos)))
                 => UNCHANGED <<messages, convCalls, leaveCalls, pickers>>]_vars

\* an earlier widget is disabled while a later one is interactive
C10_Witness ==
    /\ CD_Active
    /\ \E p, q \in Positions :
          /\ p < q
          /\ HasControls(messages[p]) /\ IsDisabled(messages[p])
          /\ Interactive(q)

\* what typing text into the field and sending it does to the session
TurnSubmission(text) ==
    IF IsBlank(text) \/ loading
    THEN UNCHANGED <<messages, convCalls, leaveCalls, loading, activeComponentIndex>>
    ELSE /\ messages' = Append(messages, UserMessage(text))
         /\ convCalls' = Append(convCalls, [message |-> text, chat_history |-> messages])
         /\ loading'
         /\ input' = <<>>
         /\ UNCHANGED <<leaveCalls, created, activeComponentIndex, isSubmitting>>

\* C11: in ChatDashboard a create-leave call is issued only by the Submit control of an
\* enabled confirmation card, with the card's data, appending no entry and issuing no
\* conversational call; a greeting quick action, a leave-type selection, a date
\* confirmation and Edit do exactly what typing the label, "I need <type> leave",
\* "From <start> to <end>" and "edit" does.
C11_WidgetActionsAreSends ==
    [][CD_Active =>
          /\ Len(leaveCalls') > Len(leaveCalls) =>
                \E pos \in Positions :
                    /\ Widget(messages[pos]) = "ConfirmationCard"
                    /\ ~ConfirmDisabled(messages[pos])
                    /\ leaveCalls' = Append(leaveCalls,
                           [payload |-> LeaveRequest(LeaveDataOf(messages[pos])),
                            leaveData |-> LeaveDataOf(messages[pos]),
                            card |-> pos])
                    /\ UNCHANGED <<messages, convCalls, loading>>
          /\ \A pos \in Positions :
                /\ ~IsDisabled(messages[pos]) =>
                      /\ (CD_ClickQuickAction(pos, <<"Apply", Space, "for", Space, "Leave">>)
                             => TurnSubmission(<<"Apply", Space, "for", Space, "Leave">>))
                      /\ (CD_ClickLeaveType(pos, "SICK")
                             => TurnSubmission(<<"I", Space, "need", Space, "sick", Space, "leave">>))
                      /\ (CD_ClickLeaveType(pos, "UNPAID")
                             => TurnSubmission(<<"I", Space, "need", Space, "unpaid", Space, "leave">>))
                      /\ ((CD_ClickConfirmSelection(pos) /\ IsSome(pickers[pos].startDate)
                              /\ IsSome(pickers[pos].endDate))
                             => TurnSubmission(<<"From", Space,
                                                 ToString(Get(pickers[pos].startDate)), Space,
                                                 "to", Space,
                                                 ToString(Get(pickers[pos].endDate))>>))
                /\ ~ConfirmDisabled(messages[pos]) =>
                      (CD_ClickEdit(pos) => TurnSubmission(<<"edit">>))]_vars

\* Edit was clicked on one confirmation card and Submit on the next: a create-leave call
\* is in flight, no conversational call is, and the last entry is still the card
C11_Witness ==
    /\ CD_Active
    /\ Len(leaveCalls) = 1
    /\ convCalls = <<>>
    /\ Widget(Last(messages)) = "ConfirmationCard"
    /\ leaveCalls[1].card = Len(messages)
    /\ \E p \in Positions : messages[p] = UserMessage(<<"edit">>)

\* the user entries of the transcript: one per accepted send
UserCount == Cardinality({p \in Positions : messages[p].role = "user"})

\* the entries the mount effect puts in the transcript
SeedEntries == IF CD_Active THEN 1 ELSE 0

\* C12 as stated: the transcript is empty once mounted, and after N sends each answered
\* by a successful response it has exactly 2N entries alternating user, assistant
\* (2N - 1 while the last send is awaiting its response).
C12_TranscriptIs2N ==
    effectsRun =>
        /\ UserCount = 0 => messages = <<>>
        /\ Len(messages) = 2 * UserCount - Len(convCalls)
        /\ \A p \in Positions :
              messages[p].role = IF p % 2 = 1 THEN "user" ELSE "assistant"

\* C12 amended: the transcript is empty at construction; the mount effect of ChatDashboard
\* seeds it with the one assistant welcome entry and the other components leave it
\* empty; every accepted send appends exactly one user entry, every successful
\* response exactly one assistant entry and no other step of such a session changes
\* the transcript; so after N answered sends it has seed + 2N entries, which after
\* the seed alternate user, assistant.
C12_TranscriptIsSeedPlus2N ==
    /\ [](/\ ~effectsRun => messages = <<>>
          /\ CD_Active => (Len(messages) >= 1 /\ messages[1] = WelcomeMessage)
          /\ Len(messages) = SeedEntries + 2 * UserCount - Len(convCalls)
          /\ \A p \in Positions :
                p > SeedEntries =>
                    messages[p].role =
                        IF (p - SeedEntries) % 2 = 1 THEN "user" ELSE "assistant")
    /\ [][/\ Len(convCalls') > Len(convCalls)
                => AppendsOne /\ Last(messages').role = "user"
          /\ Len(convCalls') < Len(convCalls)
                => AppendsOne /\ Last(messages').role = "assistant"
          /\ (effectsRun /\ Len(convCalls') = Len(convCalls))
                => messages' = messages]_vars

\* two sends were answered in ChatDashboard (five entries) or in another component (four)
C12_Witness ==
    /\ effectsRun
    /\ convCalls = <<>>
    /\ UserCount = 2
    /\ Len(messages) = SeedEntries + 4
    /\ Last(messages).role = "assistant"

\* C13: in every chat component, after mount, every step (send, response, failure,
\* submission result, widget click) leaves the transcript as it is or appends one
\* entry at its end: the previous transcript is a prefix of the new one, so no entry
\* is removed, reordered, modified or merged with an entry of equal content.
C13_TranscriptOnlyGrows ==
    [][effectsRun =>
          /\ Len(messages') \in {Len(messages), Len(messages) + 1}
          /\ SubSeq(messages', 1, Len(messages)) = messages]_vars

\* the same text was sent twice and a failure was recorded: both user entries are in the
\* transcript, equal in content
C13_Witness ==
    /\ effectsRun
    /\ \E p, q \in Positions :
          /\ p < q
          /\ messages[p].role = "user"
          /\ messages[p] = messages[q]
    /\ \E p \in Positions : messages[p] \in {CD_SendErrorMessage, UCB_SendErrorMessage}

RecognizedTags == {"GREETING", "TYPE_SELECTOR", "DATE_PICKER", "CONFIRMATION_CARD"}

\* C14: in ChatDashboard every assistant entry whose ui_state.component is absent or is
\* not one of GREETING, TYPE_SELECTOR, DATE_PICKER, CONFIRMATION_CARD is rendered
\* as a plain text bubble showing its content, and rendering it does not throw.
C14_UntaggedIsTextBubble ==
    CD_Active =>
        \A p \in Positions :
            (/\ messages[p].role = "assistant"
             /\ \A tag \in RecognizedTags : messages[p].ui_state # Some(tag))
                => /\ "TextBubble" \in RenderEntry(messages[p])
                   /\ ~RenderThrows(messages[p])

\* data?.policy_compliance || data?.leave_data?.policy_compliance
HasPolicyCompliance(msg) ==
    /\ IsSome(msg.data)
    /\ \/ IsSome(Get(msg.data).policy_compliance)
       \/ /\ IsSome(Get(msg.data).leave_data)
          /\ IsSome(Get(Get(msg.data).leave_data).policy_compliance)

\* C15: in ChatDashboard every assistant entry whose payload carries a policy_compliance
\* object is rendered with the compliance badge, whatever widget its ui_state.component
\* selects.
C15_BadgeWheneverPolicy ==
    CD_Active =>
        \A p \in Positions :
            (messages[p].role = "assistant" /\ HasPolicyCompliance(messages[p]))
                => "PolicyComplianceBadge" \in RenderEntry(messages[p])

\* C16: DatePickerCard on the active entry: from no selection a click on day d selects
\* the single day d (start date set, no end date); a second click on day e selects
\* the range [min(d,e), max(d,e)] with start and end date those of its two ends, the
\* same in either click order (10 then 5 and 5 then 10 both give [5,10]); a click on
\* day f while a range is selected resets to the single day f with the end date
\* cleared.
C16_DateClickSequence ==
    /\ [](\A d, e, f \in Days :
             LET one == DateClick(PickerInit, d)
                 two == DateClick(one, e)
                 three == DateClick(two, f)
             IN  /\ one.selectedDates = <<d>>
                 /\ two.selectedDates = <<IF d <= e THEN d ELSE e, IF d <= e THEN e ELSE d>>
                 /\ two = DateClick(DateClick(PickerInit, e), d)
                 /\ three.selectedDates = <<f>> /\ three.endDate = None
                 /\ three = DateClick(PickerInit, f))
    /\ [][\A pos \in Positions : \A day \in Days :
             (CD_ClickDay(pos, day) /\ ~IsDisabled(messages[pos])) =>
                 \A old \in {pickers[pos]} :
                     /\ Len(old.selectedDates) = 0 =>
                           /\ pickers'[pos].selectedDates = <<day>>
                           /\ pickers'[pos].startDate = Some(ToISODate(day))
                           /\ pickers'[pos].endDate = None
                     /\ Len(old.selectedDates) = 1 =>
                           \A lo \in {IF old.selectedDates[1] <= day
                                      THEN old.selectedDates[1] ELSE day} :
                           \A hi \in {IF old.selectedDates[1] <= day
                                      THEN day ELSE old.selectedDates[1]} :
                               /\ pickers'[pos].selectedDates = <<lo, hi>>
                               /\ pickers'[pos].startDate = Some(ToISODate(lo))
                               /\ pickers'[pos].endDate = Some(ToISODate(hi))
                     /\ Len(old.selectedDates) = 2 =>
                           /\ pickers'[pos].selectedDates = <<day>>
                           /\ pickers'[pos].startDate = Some(ToISODate(day))
                           /\ pickers'[pos].endDate = None
                     /\ \A q \in Positions : q # pos => pickers'[q] = pickers[q]]_vars

\* the picker of the active entry holds the range [5,10]
C16_Witness ==
    /\ CD_Active
    /\ \E pos \in Positions :
          /\ Widget(messages[pos]) = "DatePickerCard"
          /\ ~IsDisabled(messages[pos])
          /\ pickers[pos].selectedDates = <<5, 10>>
          /\ IsSome(pickers[pos].startDate) /\ IsSome(pickers[pos].endDate)

\* C17: when the user selects the single day D in the date picker (the range whose two
\* ends are D) and confirms the selection, the phrase sent is "From D to D".
C17_SingleDayPhrase ==
    [][\A pos \in Positions : \A D \in Days :
          (/\ CD_ClickConfirmSelection(pos)
           /\ ~IsDisabled(messages[pos])
           /\ ~loading
           /\ pickers[pos].selectedDates = <<D, D>>)
              => messages' = Append(messages,
                     UserMessage(<<"From", Space, ToString(D), Space,
                                   "to", Space, ToString(D)>>))]_vars

\* C18 as stated: the pending draft is cleared after a successful submission and whenever
\* a conversational or submission call ends in an error (UnifiedChatBox's pendingLeave,
\* chatSlice's currentLeaveData).
C18_DraftClearedOnError ==
    [][/\ \A i \in 1..Len(leaveCalls) :
             /\ UCB_CreateLeaveOk(i) => pendingLeave' = None
             /\ \A failure \in Failures :
                   UCB_CreateLeaveFail(i, failure) => pendingLeave' = None
       /\ \A i \in 1..Len(convCalls) :
             /\ UCB_ConversationFail(i) => pendingLeave' = None
             /\ \A failure \in Failures :
                   LCI_ConversationFail(i, failure)
                       => (currentLeaveData' = EmptyLeaveData /\ ~isComplete')]_vars

\* C18 amended: in UnifiedChatBox the pending draft is cleared by a successful
\* submission; a conversational or a submission call that ends in an error leaves the
\* draft as it was (UnifiedChatBox's pendingLeave; chatSlice's currentLeaveData,
\* suggestedPersons and isComplete), so the request can still be submitted.
C18_DraftClearedOnSuccessOnly ==
    [][/\ UCB_Active =>
             /\ (Len(leaveCalls') < Len(leaveCalls) /\ Len(created') > Len(created))
                   => pendingLeave' = None
             /\ (Len(leaveCalls') < Len(leaveCalls) /\ created' = created)
                   => (pendingLeave' = pendingLeave /\ IsSome(pendingLeave'))
             /\ (Len(convCalls') < Len(convCalls) /\ Last(messages') = UCB_SendErrorMessage)
                   => pendingLeave' = pendingLeave
       /\ LCI_Active =>
             /\ (Len(convCalls') < Len(convCalls) /\ messages' = messages)
                   => UNCHANGED <<currentLeaveData, suggestedPersons, isComplete>>
             /\ (Len(leaveCalls') < Len(leaveCalls) /\ created' = created)
                   => UNCHANGED <<currentLeaveData, suggestedPersons, isComplete>>]_vars

\* a conversational call has failed in UnifiedChatBox while a draft was pending: the draft
\* is still there
C18_Witness ==
    /\ UCB_Active
    /\ IsSome(pendingLeave)
    /\ Last(messages) = UCB_SendErrorMessage

\* C19: in every chat component each failed conversational call and each failed
\* submission call appends exactly one assistant entry to the transcript.
C19_FailuresBecomeEntries ==
    [][/\ \A i \in 1..Len(convCalls) : \A failure \in Failures :
             (\/ CD_ConversationFail(i)
              \/ UCB_ConversationFail(i)
              \/ LCI_ConversationFail(i, failure)
              \/ HR_ConversationFail(i, failure))
                 => (AppendsOne /\ Last(messages').role = "assistant")
       /\ \A i \in 1..Len(leaveCalls) : \A failure \in Failures :
             (\/ CD_CreateLeaveFail(i, failure)
              \/ UCB_CreateLeaveFail(i, failure)
              \/ LCI_CreateLeaveFail(i))
                 => (AppendsOne /\ Last(messages').role = "assistant")]_vars

\* Enter pressed in the text field of the mounted component
PressEnter == CD_PressEnter \/ UCB_PressEnter \/ LCI_PressEnter \/ HR_PressEnter

\* C20: every conversational or submission call that completes, resolved or rejected,
\* resets its in-flight flag: loading is set exactly while a conversational call is
\* in flight, isSubmitting (ChatDashboard) and submitting (UnifiedChatBox) exactly
\* while a create-leave call is; whenever no conversational call is in flight a send
\* of a non-empty text is accepted and issues a request; and, every call eventually
\* completing, each flag that is set is eventually reset.
C20_CallsResetFlags ==
    /\ [](/\ loading <=> convCalls # <<>>
          /\ isSubmitting <=> (CD_Active /\ leaveCalls # <<>>)
          /\ submitting <=> (UCB_Active /\ leaveCalls # <<>>)
          /\ (effectsRun /\ convCalls = <<>> /\ ~IsBlank(input) /\ CanGrow(2))
                => ENABLED <<PressEnter /\ Len(convCalls') = 1>>_vars)
    /\ (loading ~> ~loading)
    /\ (isSubmitting ~> ~isSubmitting)
    /\ (submitting ~> ~submitting)

\* after a failed conversational call a later send was accepted: its user entry follows
\* the failure and its request is in flight
C20_Witness ==
    /\ Len(convCalls) = 1
    /\ loading
    /\ \/ /\ Len(messages) >= 3
          /\ messages[Len(messages) - 1] \in {CD_SendErrorMessage, UCB_SendErrorMessage}
          /\ Last(messages).role = "user"
       \/ /\ component \in {"LeaveChatInterface", "HRChatInterface"}
          /\ Len(messages) >= 2
          /\ messages[Len(messages) - 1].role = "user"
          /\ Last(messages).role = "user"

\* the durations on screen: one per DatePickerCard and one per ConfirmationCard
ShownDurations ==
    {<<messages[p], pickers[p].startDate, pickers[p].endDate,
       CalculateDuration(pickers[p].startDate, pickers[p].endDate)>> :
        p \in {q \in 1..Len(messages) : Widget(messages[q]) = "DatePickerCard"}}
    \cup
    {<<messages[p], LeaveDataOf(messages[p]).start_date, LeaveDataOf(messages[p]).end_date,
       CalculateDuration(LeaveDataOf(messages[p]).start_date,
                         LeaveDataOf(messages[p]).end_date)>> :
        p \in {q \in 1..Len(messages) : Widget(messages[q]) = "ConfirmationCard"}}

\* C21: for whole-day dates with start <= end the duration shown by the date picker and
\* by the confirmation card is the inclusive day count (end - start) + 1; day 10 to day
\* 12 gives 3 and a range whose two ends are the same day gives 1
C21_DurationIsInclusive ==
    /\ CD_Active =>
          \A shown \in ShownDurations :
              (IsSome(shown[2]) /\ IsSome(shown[3]) /\ Get(shown[2]) <= Get(shown[3]))
                  => shown[4] = Get(shown[3]) - Get(shown[2]) + 1
    /\ CalculateDuration(Some(10), Some(12)) = 3
    /\ \A day \in Days : CalculateDuration(Some(day), Some(day)) = 1

\* a confirmation card for day 10 to day 12 and a picker holding a one-day range are
\* on screen
C21_Witness ==
    /\ CD_Active
    /\ \E shown \in ShownDurations :
          Widget(shown[1]) = "ConfirmationCard" /\ shown[2] = Some(10) /\ shown[3] = Some(12)
    /\ \E shown \in ShownDurations :
          Widget(shown[1]) = "DatePickerCard" /\ IsSome(shown[2]) /\ shown[2] = shown[3]

\* the request of a draft as the response delivered it, before a responsible person
\* is chosen locally
AsDelivered(request) == [request EXCEPT !.responsible_person_id = None]

\* C22: in UnifiedChatBox a successful submission clears only the draft that was
\* submitted: a draft of another request, delivered by a conversational response while
\* the submission was in flight, is still pending after the submission succeeds
C22_SuccessKeepsNewDraft ==
    [][\A i \in 1..Len(leaveCalls) :
          (/\ UCB_CreateLeaveOk(i)
           /\ IsSome(pendingLeave)
           /\ AsDelivered(UCB_LeaveRequest(Get(pendingLeave)))
                 # AsDelivered(leaveCalls[i].payload))
              => pendingLeave' = pendingLeave]_vars

\* the positions of the complete REQUEST_LEAVE entries of the UnifiedChatBox transcript
CompletePositions == {p \in Positions : IsCompleteRequest(messages[p].intent, messages[p].data)}

\* the positions of the entries that report a successful submission
SuccessPositions == {p \in Positions : messages[p] = UCB_SuccessMessage}

\* C26: in UnifiedChatBox a create-leave call is issued only while a draft is pending;
\* its payload is the draft of the most recent complete REQUEST_LEAVE response with the
\* responsible person chosen locally, whichever entry's Submit button was clicked; and
\* none is issued after a successful submission until a new complete response arrives
C26_SubmitsLatestDraft ==
    [][(component = "UnifiedChatBox" /\ Len(leaveCalls') > Len(leaveCalls)) =>
          \A call \in {leaveCalls'[Len(leaveCalls')]} :
              /\ IsSome(pendingLeave)
              /\ call.payload = UCB_LeaveRequest(Get(pendingLeave))
              /\ CompletePositions # {}
              /\ AsDelivered(call.payload)
                   = UCB_LeaveRequest(DraftOf(messages[Max(CompletePositions)].data))
              /\ \A p \in SuccessPositions : p < Max(CompletePositions)]_vars

\* a call is in flight that was issued from the button of an earlier complete entry and
\* carries the draft of the latest one, which is another request
C26_Witness ==
    /\ component = "UnifiedChatBox"
    /\ \E k \in 1..Len(leaveCalls) :
          /\ leaveCalls[k].card < Max(CompletePositions \cup {0})
          /\ leaveCalls[k].payload
               # UCB_LeaveRequest(DraftOf(messages[leaveCalls[k].card].data))

\* the state of one DatePickerCard is well formed
PickerWellFormed(picker) ==
    /\ Len(picker.selectedDates) \in 0..2
    /\ Len(picker.selectedDates) = 2 => picker.selectedDates[1] <= picker.selectedDates[2]
    /\ IsSome(picker.endDate) <=> Len(picker.selectedDates) = 2
    /\ IsSome(picker.startDate) <=> Len(picker.selectedDates) >= 1

\* C27: every DatePickerCard holds 0, 1 or 2 days, two days in ascending order, the end
\* date set iff 2 days are selected and the start date iff at least 1 is; Confirm
\* Selection sends only with a 2-day range on the active entry; and a selection that
\* holds a day never returns to empty
C27_PickerInvariant ==
    /\ [](CD_Active => \A p \in DOMAIN pickers : PickerWellFormed(pickers[p]))
    /\ [][CD_Active =>
            /\ \A pos \in Positions :
                  (CD_ClickConfirmSelection(pos) /\ convCalls' # convCalls)
                      => /\ Len(pickers[pos].selectedDates) = 2
                         /\ messages[pos].index = activeComponentIndex
            /\ \A p \in DOMAIN pickers :
                  pickers[p].selectedDates # <<>> => pickers'[p].selectedDates # <<>>]_vars

\* a picker holds a range of two different days and its confirmation has been sent
C27_Witness ==
    /\ CD_Active
    /\ \E p \in DOMAIN pickers :
          /\ Len(pickers[p].selectedDates) = 2
          /\ pickers[p].selectedDates[1] < pickers[p].selectedDates[2]
          /\ \E k \in 1..Len(convCalls) : Head(convCalls[k].message) = "From"

\* C30: the chat_history of every conversational call is the transcript as it stood
\* before the user entry of the call was appended: every earlier entry, in order, and
\* not the entry of the message being sent
C30_HistoryExcludesCurrent ==
    [][Len(convCalls') > Len(convCalls) =>
          \A call \in {convCalls'[Len(convCalls')]} :
              /\ call.chat_history = messages
              /\ Len(messages') = Len(messages) + 1
              /\ call.chat_history = SubSeq(messages', 1, Len(messages') - 1)
              /\ messages'[Len(messages')] = UserMessage(call.message)]_vars

\* a call is in flight whose history holds earlier entries, among them an earlier
\* user entry with the same text as the message being sent
C30_Witness ==
    \E k \in 1..Len(convCalls) :
        /\ Len(convCalls[k].chat_history) >= 2
        /\ \E p \in 1..Len(convCalls[k].chat_history) :
              convCalls[k].chat_history[p] = UserMessage(convCalls[k].message)

\* C23: in ApprovalsPage a leave whose approve/reject call has succeeded is absent from
\* the displayed pending list, and stays absent, whatever other approval calls are in
\* flight or complete
C23_DecidedStaysAbsent ==
    component = "ApprovalsPage" =>
        \A k \in 1..Len(pendingLeaves) : pendingLeaves[k].leave_id \notin decided

\* the Approve and Reject buttons of a leave cannot be clicked: the list is replaced by
\* the spinner, the leave is not in it, or both buttons of its item are disabled
ControlsDisabled(leaveId) ==
    \/ ~DP_ListShown
    \/ \A k \in 1..Len(pendingApprovals) :
          pendingApprovals[k].leave_id = leaveId
              => ApproveDisabled(pendingApprovals[k]) /\ RejectDisabled(pendingApprovals[k])

\* C24: in the pending-approvals panel of DashboardPage, while an approve/reject call
\* for a leave is in flight the controls of that leave are disabled, so that no second
\* call for the same leave is in flight with it, even when calls for other leaves are
\* started or finish in between
C24_ControlsDisabledInFlight ==
    component = "DashboardPage" =>
        \A i \in 1..Len(approvalCalls) :
            /\ ControlsDisabled(approvalCalls[i].leave_id)
            /\ \A j \in 1..Len(approvalCalls) :
                  approvalCalls[j].leave_id = approvalCalls[i].leave_id => j = i

\* C28: in the pending-approvals panel of DashboardPage no approve call is issued for a
\* pending leave whose policy_compliance.has_violations is true, and the Reject button
\* of such a leave is enabled whenever no call for that leave is being processed
C28_NoApproveWithViolations ==
    component = "DashboardPage" =>
        /\ \A i \in 1..Len(approvalCalls) :
              approvalCalls[i].approved =>
                  \A k \in 1..Len(Leaves) :
                      Leaves[k].leave_id = approvalCalls[i].leave_id => ~HasViolations(Leaves[k])
        /\ \A k \in 1..Len(pendingApprovals) :
              (HasViolations(pendingApprovals[k])
                  /\ processingLeaveId # pendingApprovals[k].leave_id)
                  => ~RejectDisabled(pendingApprovals[k])

\* a reject call for the leave with violations is in flight; the list shows that leave
\* with Approve disabled and Reject enabled, and another leave with Approve enabled
C28_Witness ==
    /\ DP_ListShown
    /\ \E i \in 1..Len(approvalCalls) :
          ~approvalCalls[i].approved /\ approvalCalls[i].leave_id = 2
    /\ \E k \in 1..Len(pendingApprovals) :
          /\ HasViolations(pendingApprovals[k])
          /\ ApproveDisabled(pendingApprovals[k])
          /\ ~RejectDisabled(pendingApprovals[k])
    /\ \E k \in 1..Len(pendingApprovals) : ~ApproveDisabled(pendingApprovals[k])

\* C25: in TeamViewPage the refetch scheduled by a change of the calendar range, of the
\* insights period or of the forecast range to a value v requests the data with v
C25_RefetchUsesSelected ==
    component = "TeamViewPage" =>
        \A i \in 1..Len(teamCalls) :
            teamCalls[i].kind # "loadData" => teamCalls[i].value = teamCalls[i].selected

\* C29: /team-view is for managers and HR: the router renders TeamViewPage for an
\* authenticated user with role MANAGER or HR, redirects every other authenticated
\* role to /dashboard, and redirects to /login without token or user
C29_TeamViewForManagerAndHR ==
    [][(AppRoutes_Render /\ path = "/team-view") =>
          IF ~token \/ ~user THEN path' = "/login" /\ component' = "LoginPage"
          ELSE IF role \in {"MANAGER", "HR"}
               THEN path' = "/team-view" /\ component' = "TeamViewPage"
               ELSE path' = "/dashboard" /\ component' = "DashboardPage"]_vars

====
